---- MODULE Spec2Model ----
(***************************************************************************)
(* Sale ingestion and classification pipeline of the Al Cabone sales bot.  *)
(* The model follows the final draft of the pipeline (the file whose       *)
(* header reads "FILE: bot.js" and whose runBot derives the status line    *)
(* with getTransactionStatus).                                             *)
(*                                                                         *)
(* Time is counted in ticks of half a second, so that the conversion of    *)
(* the stored ISO time to whole seconds (Math.floor(ms / 1000)) is a real  *)
(* division.  Event timestamps are whole seconds, as the marketplace       *)
(* reports them.                                                           *)
(***************************************************************************)
EXTENDS Integers, Sequences, FiniteSets, TLC

(***************************************************************************)
(* Bounds of the model.                                                    *)
(***************************************************************************)
MaxClock == 2
MaxEvents == 4
MaxRetriesBound == 4
MaxListing == 2
MaxCount == 101

(***************************************************************************)
(* Program constants.                                                      *)
(***************************************************************************)
TicksPerSec == 2
RETRY_DELAY == 2000
DefaultMaxRetries == 3
BatchCap == 3
HourTicks == 60 * 60 * TicksPerSec
FloorAlertHours == 72
EarlyFloorAlertHours == 20
EarlyResponseLimit == 10
TWITTER_DELAY == 5000

VARIABLES
    now,         \* wall clock, in ticks
    file,        \* last-check.json
    market,      \* the sale events the marketplace lists, most recent first
    pc,          \* position of the run inside runBot
    rMax,        \* apiCallWithRetry: maxRetries
    rDelay,      \* apiCallWithRetry: delay
    attempt,     \* apiCallWithRetry: loop variable
    tries,       \* apiCallWithRetry: result of each invocation so far ("ok" or the error)
    waits,       \* apiCallWithRetry: backoff waits so far
    outcome,     \* apiCallWithRetry: "none", "running", "returned", "thrown"
    thrown,      \* apiCallWithRetry: the error raised to the caller, or "none"
    sales,       \* runBot: list returned by fetchRecentSales
    readCheck,   \* fetchRecentSales: lastCheck as the last closure call read it
    response,    \* fetchRecentSales: events of the last marketplace response
    shouldAlert, \* runBot: result of shouldPostFloorAlert
    idx,         \* runBot: position in salesToProcess
    floorNFT,    \* runBot: result of getFloorPriceNFT ("null", "anon", "seller")
    mediaIds,    \* runBot: number of media uploaded for the current tweet
    started,     \* ids of the sales whose loop body was entered in this run
    results,     \* per sale of this run, in order: "posted", "fallback"
                 \* (posted by the retry without media), "failed" (one call,
                 \* failed) or "failed_both"
    calls,       \* image and publish calls made for the current sale, and
                 \* the checkpoint writes made since
    attempted,   \* ids of the events for which a publish call was ever made
    buyerCount,  \* runBot: holding count of the current buyer
    sellerCount, \* runBot: holding count of the current seller
    buyerTier,   \* runBot: tier of the current buyer, "none" before it is set
    sellerTier,  \* runBot: tier of the current seller, 'unknown' without one
    status,      \* runBot: status line of the current sale
    slept,       \* delays awaited with sleep(TWITTER_DELAY) in this run
    createCanvas, \* whether the canvas module was loaded (earlier draft only)
    invocations  \* the invocations of the process that run side by side: for
                 \* each its position, the object its updater read from
                 \* the file, and what became of the stored fields

vars == <<now, file, market, pc, rMax, rDelay, attempt, tries, waits,
          outcome, thrown, sales, readCheck, response, shouldAlert, idx,
          floorNFT, mediaIds, started, results, calls, attempted, buyerCount,
          sellerCount, buyerTier, sellerTier, status, slept, createCanvas,
          invocations>>

retryVars == <<rMax, rDelay, attempt, tries, waits, outcome, thrown>>
runVars == <<sales, readCheck, response, shouldAlert, idx, floorNFT, mediaIds,
             buyerCount, sellerCount, started, results, buyerTier, sellerTier,
             status, slept>>

(***************************************************************************)
(* JavaScript values as the marketplace JSON carries them: a field is      *)
(* absent (undefined), a number, or a decimal numeral string.              *)
(***************************************************************************)
Undef == [t |-> "undef", v |-> 0]
Num(n) == [t |-> "num", v |-> n]
Str(n) == [t |-> "str", v |-> n]

\* JavaScript truthiness: undefined and the number 0 are falsy; a numeral
\* string is never empty, so it is truthy, the string '0' included.
Truthy(x) ==
    CASE x.t = "undef" -> FALSE
      [] x.t = "num" -> x.v # 0
      [] x.t = "str" -> TRUE

\* parseInt of an integer or of a decimal numeral string.
ParseInt(x) == x.v

\* payment.quantity === '0'
IsStringZero(x) == x.t = "str" /\ x.v = 0

NoPayment == [present |-> FALSE, quantity |-> Undef, decimals |-> 0]
Payment(q) == [present |-> TRUE, quantity |-> q, decimals |-> 3]
NoNft == [present |-> FALSE, image_url |-> FALSE]
Nft(img) == [present |-> TRUE, image_url |-> img]

\* The shape of one event of the marketplace response (everything but its
\* identity and its timestamp), together with what the account endpoint
\* reports for its two parties: buyerNfts and sellerNfts are the lengths of
\* the nfts lists returned for the buyer and the seller address.  The
\* events of the v2 endpoint carry no winner_account and no asset object.
Shape(type, nft, buyer, seller, quantity, payment) ==
    [event_type |-> type, nft |-> nft, buyer |-> buyer, seller |-> seller,
     quantity |-> quantity, payment |-> payment,
     buyerNfts |-> 30, sellerNfts |-> 0,
     winner_account |-> FALSE, asset |-> FALSE]

Holding(shape, b, s) == [shape EXCEPT !.buyerNfts = b, !.sellerNfts = s]

GoodSale == Shape("sale", Nft(TRUE), TRUE, TRUE, Num(1), Payment(Str(1500)))
PlainSale == Shape("sale", Nft(FALSE), TRUE, FALSE, Undef, Payment(Num(2500)))

\* Shapes that differ from a good sale in one field, or in the holdings of
\* the parties.
OddShapes ==
    { PlainSale,
      Holding(GoodSale, 0, 30),
      Holding(GoodSale, 0, 0),
      Holding(GoodSale, 12, 7),
      Shape("transfer", Nft(TRUE), TRUE, TRUE, Num(1), Payment(Str(1500))),
      Shape("sale", NoNft, TRUE, TRUE, Num(1), Payment(Str(1500))),
      Shape("sale", Nft(TRUE), FALSE, TRUE, Num(1), Payment(Str(1500))),
      Shape("sale", Nft(TRUE), TRUE, TRUE, Num(2), Payment(Str(1500))),
      Shape("sale", Nft(TRUE), TRUE, TRUE, Str(3), Payment(Str(1500))),
      Shape("sale", Nft(TRUE), TRUE, TRUE, Str(1), NoPayment),
      Shape("sale", Nft(TRUE), TRUE, TRUE, Num(1), Payment(Undef)),
      Shape("sale", Nft(TRUE), TRUE, TRUE, Num(1), Payment(Num(0))),
      Shape("sale", Nft(TRUE), TRUE, TRUE, Num(1), Payment(Str(0))) }

SaleShapes == {GoodSale} \cup OddShapes

Event(id, ts, shape) ==
    [id |-> id, event_timestamp |-> ts, event_type |-> shape.event_type,
     nft |-> shape.nft, buyer |-> shape.buyer, seller |-> shape.seller,
     quantity |-> shape.quantity, payment |-> shape.payment,
     buyerNfts |-> shape.buyerNfts, sellerNfts |-> shape.sellerNfts,
     winner_account |-> shape.winner_account, asset |-> shape.asset]

(***************************************************************************)
(* Pure functions of the pipeline.                                         *)
(***************************************************************************)
\* A validator without the bundle test.
isValidSaleEventWithBundles(sale) ==
    IF sale.event_type # "sale" THEN FALSE
    ELSE IF ~sale.nft.present \/ ~sale.buyer THEN FALSE
    ELSE IF ~sale.payment.present \/ ~Truthy(sale.payment.quantity) THEN FALSE
    ELSE TRUE

isValidSaleEvent(sale) ==
    IF sale.event_type # "sale" THEN FALSE
    ELSE IF ~sale.nft.present \/ ~sale.buyer THEN FALSE
    ELSE IF Truthy(sale.quantity) /\ ParseInt(sale.quantity) > 1 THEN FALSE
    ELSE IF ~sale.payment.present \/ ~Truthy(sale.payment.quantity) THEN FALSE
    ELSE TRUE

Pow10(n) == IF n = 0 THEN 1 ELSE IF n = 1 THEN 10 ELSE IF n = 2 THEN 100 ELSE 1000

\* formatPrice: "Price undisclosed", or the price in hundredths of the
\* payment token (decimals is never 18 here, so toFixed(2) applies).
formatPrice(sale) ==
    LET payment == sale.payment IN
    IF ~payment.present \/ ~Truthy(payment.quantity)
       \/ IsStringZero(payment.quantity)
    THEN [undisclosed |-> TRUE, hundredths |-> 0]
    ELSE [undisclosed |-> FALSE,
          hundredths |-> (payment.quantity.v * 100
                          + (Pow10(payment.decimals) \div 2))
                         \div Pow10(payment.decimals)]

(***************************************************************************)
(* Retry executor: apiCallWithRetry(apiCall, maxRetries, delay).           *)
(***************************************************************************)
NetError == "NetworkError"
RangeError == "RangeError"
Errors == {NetError, RangeError}
Delays == {RETRY_DELAY, 1000}

RECURSIVE Pow2(_)
Pow2(n) == IF n <= 0 THEN 1 ELSE 2 * Pow2(n - 1)

\* A retry loop that gives up one attempt early.
RetryExhaustedEarly(a, m) == a + 1 = m

\* if (attempt === maxRetries) throw error
RetryExhausted(a, m) == a = m

\* A backoff that grows by one delay per attempt.
BackoffWaitLinear(d, a) == d * a

\* const waitTime = delay * Math.pow(2, attempt - 1)
BackoffWait(d, a) == d * Pow2(a - 1)

\* State of the executor when the call is entered: the for loop tests
\* attempt <= maxRetries before the first invocation.
RetryEnter(m, d) ==
    /\ rMax' = m
    /\ rDelay' = d
    /\ attempt' = 1
    /\ tries' = <<>>
    /\ waits' = <<>>
    /\ thrown' = "none"
    /\ outcome' = IF 1 <= m THEN "running" ELSE "returned"

\* The caller has taken the result (or caught the error): the call is over.
RetryLeave == RetryEnter(0, 0)

\* The invocation of apiCall succeeds: return result.
RetryReturn ==
    /\ outcome = "running"
    /\ tries' = Append(tries, "ok")
    /\ outcome' = "returned"
    /\ UNCHANGED <<rMax, rDelay, attempt, waits, thrown>>

\* The invocation of apiCall throws error e: the catch block.
RetryCatch(e) ==
    /\ outcome = "running"
    /\ tries' = Append(tries, e)
    /\ IF RetryExhausted(attempt, rMax)
       THEN /\ outcome' = "thrown"
            /\ thrown' = e
            /\ UNCHANGED <<attempt, waits>>
       ELSE /\ waits' = Append(waits, BackoffWait(rDelay, attempt))
            /\ attempt' = attempt + 1
            /\ outcome' = IF attempt + 1 <= rMax THEN "running" ELSE "returned"
            /\ thrown' = thrown
    /\ UNCHANGED <<rMax, rDelay>>

(***************************************************************************)
(* Checkpoint store: last-check.json.                                      *)
(***************************************************************************)
Undefined == [def |-> FALSE, t |-> 0]
Time(t) == [def |-> TRUE, t |-> t]

Missing == [st |-> "missing", lastCheck |-> Undefined, lastFloorAlert |-> Undefined]
Corrupt == [st |-> "corrupt", lastCheck |-> Undefined, lastFloorAlert |-> Undefined]
Stored(lc, lfa) == [st |-> "ok", lastCheck |-> lc, lastFloorAlert |-> lfa]

\* A reader that takes one hour ago whatever the file holds.
getLastCheckTimeOfClock(f, clock) == Time(clock - HourTicks)

\* getLastCheckTime: the stored lastCheck field (undefined when the parsed
\* file has none), or one hour ago when reading or parsing throws.
getLastCheckTime(f, clock) ==
    IF f.st = "ok" THEN f.lastCheck ELSE Time(clock - HourTicks)

\* Math.floor(new Date(lastCheck).getTime() / 1000)
ToSeconds(t) == t \div TicksPerSec

\* shouldPostFloorAlert
shouldPostFloorAlert(f, clock) ==
    IF f.st # "ok" THEN TRUE
    ELSE IF ~f.lastFloorAlert.def THEN TRUE
    ELSE clock - f.lastFloorAlert.t >= FloorAlertHours * HourTicks

\* The object updateLastCheckTime and updateLastFloorAlert start from:
\* the parsed file, or {} when reading or parsing throws.
ReadData(f) == IF f.st = "ok" THEN f ELSE Stored(Undefined, Undefined)

\* A write of lastCheck that stores the time it read.
updateLastCheckTimeStale(f, clock, writeOk) ==
    IF writeOk THEN Stored(ReadData(f).lastCheck, ReadData(f).lastFloorAlert)
    ELSE f

\* A write of lastCheck that stores the time one minute before the write.
updateLastCheckTimeMinuteBefore(f, clock, writeOk) ==
    IF writeOk
    THEN Stored(Time(clock - 60 * TicksPerSec), ReadData(f).lastFloorAlert)
    ELSE f

\* File content after updateLastCheckTime; the write may fail, and the
\* failure is caught and logged.
updateLastCheckTime(f, clock, writeOk) ==
    IF writeOk THEN Stored(Time(clock), ReadData(f).lastFloorAlert) ELSE f

\* A write of lastFloorAlert that replaces the file by that field alone.
updateLastFloorAlertAlone(f, clock, writeOk) ==
    IF writeOk THEN Stored(Undefined, Time(clock)) ELSE f

\* File content after updateLastFloorAlert.
updateLastFloorAlert(f, clock, writeOk) ==
    IF writeOk THEN Stored(ReadData(f).lastCheck, Time(clock)) ELSE f

(***************************************************************************)
(* Event fetcher: the closure fetchRecentSales hands to apiCallWithRetry.   *)
(***************************************************************************)
ResponseLimit == 50

\* A filter that lets through the events of the checkpoint's own second.
IsRecentOrEqual(event, lastCheck) ==
    lastCheck.def /\ event.event_timestamp >= ToSeconds(lastCheck.t)

\* event.event_timestamp > lastCheckTimestamp; every comparison with NaN
\* (lastCheck undefined) is false.
IsRecent(event, lastCheck) ==
    lastCheck.def /\ event.event_timestamp > ToSeconds(lastCheck.t)

RECURSIVE Reverse(_)
Reverse(s) == IF s = <<>> THEN <<>> ELSE Append(Reverse(Tail(s)), Head(s))

\* A fetcher that hands the sales back oldest first.
FilterSalesOldestFirst(events, lastCheck) ==
    LET recent(e) == IsRecent(e, lastCheck)
        recentEvents == SelectSeq(events, recent)
    IN Reverse(SelectSeq(recentEvents, isValidSaleEvent))

\* events.filter(recent).filter(isValidSaleEvent)
FilterSales(events, lastCheck) ==
    LET recent(e) == IsRecent(e, lastCheck)
        recentEvents == SelectSeq(events, recent)
    IN SelectSeq(recentEvents, isValidSaleEvent)

\* The events of the response: the most recent `limit` listed events.
ResponseOf(listing) ==
    SubSeq(listing, 1, IF Len(listing) < ResponseLimit THEN Len(listing)
                       ELSE ResponseLimit)

\* A batch that takes one sale more than the cap.
SalesToProcessOneMore(s) ==
    SubSeq(s, 1, IF Len(s) < BatchCap + 1 THEN Len(s) ELSE BatchCap + 1)

\* A batch without the cap.
SalesToProcessAll(s) == s

\* const salesToProcess = sales.slice(0, 3)
SalesToProcess(s) == SubSeq(s, 1, IF Len(s) < BatchCap THEN Len(s) ELSE BatchCap)

(***************************************************************************)
(* Tier and narrative classifier.                                          *)
(***************************************************************************)
\* A classifier whose thresholds are exclusive.
getHolderTierExclusive(nftCount) ==
    IF nftCount > 100 THEN "commission"
    ELSE IF nftCount > 25 THEN "godfather"
    ELSE IF nftCount > 20 THEN "underboss"
    ELSE IF nftCount > 15 THEN "consigliere"
    ELSE IF nftCount > 10 THEN "caporegime"
    ELSE IF nftCount > 5 THEN "soldier"
    ELSE "associate"

\* A classifier that asks 50 of a godfather.
getHolderTierOfFifty(nftCount) ==
    IF nftCount >= 100 THEN "commission"
    ELSE IF nftCount >= 50 THEN "godfather"
    ELSE IF nftCount >= 20 THEN "underboss"
    ELSE IF nftCount >= 15 THEN "consigliere"
    ELSE IF nftCount >= 10 THEN "caporegime"
    ELSE IF nftCount >= 5 THEN "soldier"
    ELSE "associate"

getHolderTier(nftCount) ==
    IF nftCount >= 100 THEN "commission"
    ELSE IF nftCount >= 25 THEN "godfather"
    ELSE IF nftCount >= 20 THEN "underboss"
    ELSE IF nftCount >= 15 THEN "consigliere"
    ELSE IF nftCount >= 10 THEN "caporegime"
    ELSE IF nftCount >= 5 THEN "soldier"
    ELSE "associate"

\* A rank table without the default of 1.
getTierRankNoDefault(tier) ==
    CASE tier = "associate" -> 1
      [] tier = "soldier" -> 2
      [] tier = "caporegime" -> 3
      [] tier = "consigliere" -> 4
      [] tier = "underboss" -> 5
      [] tier = "godfather" -> 6
      [] tier = "commission" -> 7
      [] OTHER -> 0

\* A rank table with two neighbouring ranks exchanged.
getTierRankExchanged(tier) ==
    CASE tier = "associate" -> 1
      [] tier = "soldier" -> 2
      [] tier = "caporegime" -> 3
      [] tier = "consigliere" -> 5
      [] tier = "underboss" -> 4
      [] tier = "godfather" -> 6
      [] tier = "commission" -> 7
      [] OTHER -> 1

\* ranks[tier] || 1
getTierRank(tier) ==
    CASE tier = "associate" -> 1
      [] tier = "soldier" -> 2
      [] tier = "caporegime" -> 3
      [] tier = "consigliere" -> 4
      [] tier = "underboss" -> 5
      [] tier = "godfather" -> 6
      [] tier = "commission" -> 7
      [] OTHER -> 1

statusTemplates ==
    [empire_falls |-> "POWER VACUUM",
     consolidation |-> "EMPIRE EXPANSION",
     business_as_usual |-> "FAMILY BUSINESS"]

\* A status that reacts to a rank difference of one.
getTransactionStatusNarrow(bTier, sTier) ==
    LET buyerRank == getTierRank(bTier)
        sellerRank == getTierRank(sTier)
    IN IF sellerRank > buyerRank THEN statusTemplates.empire_falls
       ELSE IF buyerRank > sellerRank THEN statusTemplates.consolidation
       ELSE statusTemplates.business_as_usual

\* A status that looks at the seller's rank itself, not only at the
\* difference.
getTransactionStatusOfTop(bTier, sTier) ==
    LET buyerRank == getTierRank(bTier)
        sellerRank == getTierRank(sTier)
    IN IF sellerRank > buyerRank + 1 /\ sellerRank >= 4
       THEN statusTemplates.empire_falls
       ELSE IF buyerRank > sellerRank + 1 THEN statusTemplates.consolidation
       ELSE statusTemplates.business_as_usual

getTransactionStatus(bTier, sTier) ==
    LET buyerRank == getTierRank(bTier)
        sellerRank == getTierRank(sTier)
    IN IF sellerRank > buyerRank + 1 THEN statusTemplates.empire_falls
       ELSE IF buyerRank > sellerRank + 1 THEN statusTemplates.consolidation
       ELSE statusTemplates.business_as_usual

(***************************************************************************)
(* The environment: the clock and the marketplace listing.  A run reads    *)
(* the listing only in its fetch, and stores the clock only in its two     *)
(* checkpoint writes, so whatever happens while a run is in progress is    *)
(* let through at one point, before the write of lastCheck; the rest        *)
(* happens between runs.                                                   *)
(***************************************************************************)
\* Holdings the account endpoint may report for the seller of a floor
\* listing.
Holdings == {0, 30}
EnvPoints == {"idle", "checkpoint"}

\* A record of one call to a collaborator during the run.
Call(op, id, media, ok) == [op |-> op, id |-> id, media |-> media, ok |-> ok]

Ids(s) == {s[i].id : i \in 1..Len(s)}

Tick ==
    /\ pc \in EnvPoints
    /\ now < MaxClock
    /\ now' = now + 1
    /\ UNCHANGED <<createCanvas, invocations, file, market, pc, retryVars, runVars, calls, attempted>>

\* A sale happens now.  The first sale listed may lack a seller address and
\* an image; the later ones carry both.
LiveShapes == {GoodSale, PlainSale}

SaleOccurs(shape) ==
    /\ pc \in EnvPoints
    /\ Len(market) < MaxEvents
    /\ market # <<>> => shape = GoodSale
    /\ market' = <<Event(Cardinality(Ids(market)) + 1, ToSeconds(now), shape)>>
                 \o market
    /\ UNCHANGED <<createCanvas, invocations, now, file, pc, retryVars, runVars, calls, attempted>>

\* The marketplace lists its most recent event a second time (one event
\* at most is listed twice).
ListedTwice ==
    /\ pc \in EnvPoints
    /\ market # <<>>
    /\ Len(market) < MaxEvents
    /\ Cardinality(Ids(market)) = Len(market)
    /\ market' = <<market[1]>> \o market
    /\ UNCHANGED <<createCanvas, invocations, now, file, pc, retryVars, runVars, calls, attempted>>

(***************************************************************************)
(* runBot.                                                                 *)
(***************************************************************************)
\* Index of the first sale at or after i that the loop body does not skip
\* (if (!buyerAddress) continue), or one past the end of the batch.
RECURSIVE NextIndex(_, _)
NextIndex(batch, i) ==
    IF i > Len(batch) THEN i
    ELSE IF batch[i].buyer THEN i
    ELSE NextIndex(batch, i + 1)

\* Enter the loop body for the sale at position i of the batch, or leave
\* the loop: the body starts with getHolderNFTCount(buyerAddress).
BeginSale(i) ==
    LET batch == SalesToProcess(sales)
        j == NextIndex(batch, i)
    IN /\ idx' = j
       /\ mediaIds' = 0
       /\ buyerCount' = 0
       /\ sellerCount' = 0
       /\ buyerTier' = "none"
       /\ sellerTier' = "none"
       /\ status' = "none"
       /\ IF j > Len(batch)
          THEN /\ pc' = "checkpoint"
               /\ RetryLeave
               /\ started' = started
          ELSE /\ pc' = "buyer"
               /\ RetryEnter(DefaultMaxRetries, RETRY_DELAY)
               /\ started' = Append(started, batch[j].id)
       /\ calls' = <<>>

\* The scheduler starts the process: runBot calls fetchRecentSales.
RunStart ==
    /\ pc = "idle"
    /\ pc' = "fetch"
    /\ RetryEnter(DefaultMaxRetries, RETRY_DELAY)
    /\ UNCHANGED <<createCanvas, invocations, now, file, market, runVars, calls, attempted>>

\* A catch handler that hands back a placeholder event.
FetchCatchPlaceholder == <<Event(0, 0, GoodSale)>>

\* .catch(error => { ...; return []; })
FetchCatchValue == <<>>

\* A fetch whose last failure ends the run.
FetchFailsEndsRun ==
    /\ pc = "fetch"
    /\ RetryCatch(NetError)
    /\ readCheck' = getLastCheckTime(file, now)
    /\ response' = <<>>
    /\ sales' = <<>>
    /\ pc' = IF outcome' = "running" THEN "fetch" ELSE "done"
    /\ UNCHANGED <<createCanvas, invocations, now, file, market, shouldAlert, idx, floorNFT, mediaIds,
                   buyerCount, sellerCount, started, results, calls,
                   attempted, buyerTier, sellerTier, status, slept>>

\* One invocation of the fetch closure in which the marketplace request
\* fails; after the last one the .catch handler returns [].
FetchFails ==
    /\ pc = "fetch"
    /\ RetryCatch(NetError)
    /\ readCheck' = getLastCheckTime(file, now)
    /\ response' = <<>>
    /\ sales' = IF outcome' = "thrown" THEN FetchCatchValue ELSE <<>>
    /\ pc' = IF outcome' = "running" THEN "fetch" ELSE "alert_check"
    /\ UNCHANGED <<createCanvas, invocations, now, file, market, shouldAlert, idx, floorNFT, mediaIds,
                   buyerCount, sellerCount, started, results, calls,
                   attempted, buyerTier, sellerTier, status, slept>>

\* One invocation of the fetch closure in which the marketplace answers.
\* new Date(lastCheck).toISOString() throws a RangeError when lastCheck is
\* undefined, after the request and the filtering.
FetchResponds ==
    LET lastCheck == getLastCheckTime(file, now)
        events == ResponseOf(market)
    IN /\ pc = "fetch"
       /\ readCheck' = lastCheck
       /\ response' = events
       /\ IF lastCheck.def
          THEN /\ RetryReturn
               /\ sales' = FilterSales(events, lastCheck)
          ELSE /\ RetryCatch(RangeError)
               /\ sales' = IF outcome' = "thrown" THEN FetchCatchValue ELSE <<>>
       /\ pc' = IF outcome' = "running" THEN "fetch" ELSE "alert_check"
       /\ UNCHANGED <<createCanvas, invocations, now, file, market, shouldAlert, idx, floorNFT, mediaIds,
                      buyerCount, sellerCount, started, results, calls,
                      attempted, buyerTier, sellerTier, status, slept>>

\* A branch that posts the floor alert whenever one is due, sales or not.
AlertCheckWhenDue ==
    LET alert == shouldPostFloorAlert(file, now) IN
    /\ pc = "alert_check"
    /\ shouldAlert' = alert
    /\ IF sales = <<>> /\ ~alert
       THEN /\ pc' = "checkpoint"
            /\ RetryLeave
            /\ UNCHANGED <<idx, mediaIds, buyerCount, sellerCount, started,
                           calls, buyerTier, sellerTier, status>>
       ELSE IF alert
       THEN /\ pc' = "floor"
            /\ RetryEnter(DefaultMaxRetries, RETRY_DELAY)
            /\ UNCHANGED <<idx, mediaIds, buyerCount, sellerCount, started,
                           calls, buyerTier, sellerTier, status>>
       ELSE BeginSale(1)
    /\ UNCHANGED <<createCanvas, invocations, now, file, market, sales, readCheck, response, floorNFT,
                   results, attempted, slept>>

\* const shouldAlert = await shouldPostFloorAlert(), and the three-way
\* branch that follows it.
AlertCheck ==
    LET alert == shouldPostFloorAlert(file, now) IN
    /\ pc = "alert_check"
    /\ shouldAlert' = alert
    /\ IF sales = <<>> /\ ~alert
       THEN /\ pc' = "checkpoint"
            /\ RetryLeave
            /\ UNCHANGED <<idx, mediaIds, buyerCount, sellerCount, started,
                           calls, buyerTier, sellerTier, status>>
       ELSE IF alert /\ sales = <<>>
       THEN /\ pc' = "floor"
            /\ RetryEnter(DefaultMaxRetries, RETRY_DELAY)
            /\ UNCHANGED <<idx, mediaIds, buyerCount, sellerCount, started,
                           calls, buyerTier, sellerTier, status>>
       ELSE BeginSale(1)
    /\ UNCHANGED <<createCanvas, invocations, now, file, market, sales, readCheck, response, floorNFT,
                   results, attempted, slept>>

\* getFloorPriceNFT answers: no listing, a listing without a seller
\* address, or a listing with one.
FloorResponds(listing) ==
    /\ pc = "floor"
    /\ RetryReturn
    /\ floorNFT' = listing
    /\ sellerTier' = IF listing = "null" THEN sellerTier ELSE "unknown"
    /\ pc' = IF listing = "null" THEN "checkpoint"
             ELSE IF listing = "seller" THEN "floor_seller"
             ELSE "floor_tweet"
    /\ UNCHANGED <<createCanvas, invocations, now, file, market, sales, readCheck,
                   response, shouldAlert, idx, mediaIds, buyerCount,
                   sellerCount, started, results, calls, attempted, buyerTier,
                   status, slept>>

\* The listings request fails; after the last attempt the .catch handler
\* returns null.
FloorFails ==
    /\ pc = "floor"
    /\ RetryCatch(NetError)
    /\ floorNFT' = "null"
    /\ pc' = IF outcome' = "running" THEN "floor" ELSE "checkpoint"
    /\ UNCHANGED <<createCanvas, invocations, now, file, market, sales, readCheck,
                   response, shouldAlert, idx, mediaIds, buyerCount,
                   sellerCount, started, results, calls, attempted, buyerTier,
                   sellerTier, status, slept>>

\* sellerCount = await getSellerNFTCount(floorNFT.seller_address)
FloorSellerStart ==
    /\ pc = "floor_seller"
    /\ RetryEnter(DefaultMaxRetries, RETRY_DELAY)
    /\ pc' = "floor_seller_call"
    /\ UNCHANGED <<createCanvas, invocations, now, file, market, runVars, calls, attempted>>

\* A floor alert that records the alert only when its tweet got through.
FloorTweetMarksOnSuccess(ok) ==
    /\ pc = "floor_tweet"
    /\ calls' = Append(calls, Call("floorTweet", 0, FALSE, ok))
    /\ pc' = IF ok THEN "floor_mark" ELSE "checkpoint"
    /\ RetryLeave
    /\ UNCHANGED <<createCanvas, invocations, now, file, market, runVars, attempted>>

\* The floor alert tweet; mediaIds is empty there, so a failure has no
\* fallback.
FloorTweet(ok) ==
    /\ pc = "floor_tweet"
    /\ calls' = Append(calls, Call("floorTweet", 0, FALSE, ok))
    /\ pc' = "floor_mark"
    /\ RetryLeave
    /\ UNCHANGED <<createCanvas, invocations, now, file, market, runVars, attempted>>

\* await updateLastFloorAlert(); await sleep(TWITTER_DELAY)
UpdateLastFloorAlert(writeOk) ==
    /\ pc = "floor_mark"
    /\ file' = updateLastFloorAlert(file, now, writeOk)
    /\ calls' = Append(calls, Call("lastFloorAlert", 0, FALSE, writeOk))
    /\ pc' = "checkpoint"
    /\ slept' = Append(slept, TWITTER_DELAY)
    /\ UNCHANGED <<createCanvas, invocations, now, market, retryVars, sales, readCheck,
                   response, shouldAlert, idx, floorNFT, mediaIds, buyerCount,
                   sellerCount, started, results, attempted, buyerTier,
                   sellerTier, status>>

\* No floor: the first argument as it is.
MaxOfFirst(a, b) == a

Max(a, b) == IF a >= b THEN a ELSE b

\* getHolderNFTCount: Math.max(nfts.length, 1)
HolderResponds ==
    /\ pc = "buyer"
    /\ RetryReturn
    /\ buyerCount' = Max(sales[idx].buyerNfts, 1)
    /\ buyerTier' = getHolderTier(buyerCount')
    /\ pc' = "seller"
    /\ UNCHANGED <<createCanvas, invocations, now, file, market, sales, readCheck,
                   response, shouldAlert, idx, floorNFT, mediaIds, sellerCount,
                   started, results, calls, attempted, sellerTier, status,
                   slept>>

\* A buyer lookup whose last failure reaches the catch block of runBot.
HolderFailsRaises ==
    /\ pc = "buyer"
    /\ RetryCatch(NetError)
    /\ pc' = IF outcome' = "running" THEN "buyer" ELSE "done"
    /\ UNCHANGED <<createCanvas, invocations, now, file, market, sales, readCheck,
                   response, shouldAlert, idx, floorNFT, mediaIds, buyerCount,
                   sellerCount, started, results, calls, attempted, buyerTier,
                   sellerTier, status, slept>>

\* getHolderNFTCount: the request fails; the .catch handler returns 1.
HolderFails ==
    /\ pc = "buyer"
    /\ RetryCatch(NetError)
    /\ IF outcome' = "running"
       THEN pc' = "buyer" /\ buyerCount' = buyerCount /\ buyerTier' = buyerTier
       ELSE /\ pc' = "seller"
            /\ buyerCount' = 1
            /\ buyerTier' = getHolderTier(buyerCount')
    /\ UNCHANGED <<createCanvas, invocations, now, file, market, sales, readCheck,
                   response, shouldAlert, idx, floorNFT, mediaIds, sellerCount,
                   started, results, calls, attempted, sellerTier, status,
                   slept>>

\* let sellerTier = 'unknown'; if (sellerAddress) sellerCount = await
\* getSellerNFTCount(sellerAddress); without a seller address the status
\* line is derived at once.
SellerStart ==
    LET sale == sales[idx] IN
    /\ pc = "seller"
    /\ sellerTier' = "unknown"
    /\ IF sale.seller
       THEN /\ RetryEnter(DefaultMaxRetries, RETRY_DELAY)
            /\ pc' = "seller_call"
            /\ status' = status
       ELSE /\ RetryLeave
            /\ pc' = "image"
            /\ status' = getTransactionStatus(buyerTier, sellerTier')
    /\ UNCHANGED <<createCanvas, invocations, now, file, market, sales, readCheck,
                   response, shouldAlert, idx, floorNFT, mediaIds, buyerCount,
                   sellerCount, started, results, calls, attempted, buyerTier,
                   slept>>

\* getSellerNFTCount: nfts.length
SellerResponds(n) ==
    /\ pc \in {"seller_call", "floor_seller_call"}
    /\ pc = "seller_call" => n = sales[idx].sellerNfts
    /\ RetryReturn
    /\ sellerCount' = n
    /\ sellerTier' = getHolderTier(sellerCount')
    /\ status' = IF pc = "seller_call"
                 THEN getTransactionStatus(buyerTier, sellerTier')
                 ELSE status
    /\ pc' = IF pc = "seller_call" THEN "image" ELSE "floor_tweet"
    /\ UNCHANGED <<createCanvas, invocations, now, file, market, sales, readCheck,
                   response, shouldAlert, idx, floorNFT, mediaIds, buyerCount,
                   started, results, calls, attempted, buyerTier, slept>>

\* getSellerNFTCount: the request fails; the .catch handler returns 0.
SellerFails ==
    /\ pc \in {"seller_call", "floor_seller_call"}
    /\ RetryCatch(NetError)
    /\ IF outcome' = "running"
       THEN /\ pc' = pc
            /\ UNCHANGED <<sellerCount, sellerTier, status>>
       ELSE /\ pc' = IF pc = "seller_call" THEN "image" ELSE "floor_tweet"
            /\ sellerCount' = 0
            /\ sellerTier' = getHolderTier(sellerCount')
            /\ status' = IF pc = "seller_call"
                         THEN getTransactionStatus(buyerTier, sellerTier')
                         ELSE status
    /\ UNCHANGED <<createCanvas, invocations, now, file, market, sales, readCheck,
                   response, shouldAlert, idx, floorNFT, mediaIds, buyerCount,
                   started, results, calls, attempted, buyerTier, slept>>

\* if (nftImageUrl): fetch the image and upload it; a failure of either is
\* caught and the tweet goes on without media.
UploadImage(ok) ==
    LET sale == sales[idx] IN
    /\ pc = "image"
    /\ sale.nft.image_url
    /\ mediaIds' = IF ok THEN 1 ELSE 0
    /\ calls' = Append(calls, Call("image", sale.id, FALSE, ok))
    /\ pc' = "tweet"
    /\ RetryLeave
    /\ UNCHANGED <<createCanvas, invocations, now, file, market, sales, readCheck,
                   response, shouldAlert, idx, floorNFT, buyerCount,
                   sellerCount, started, results, attempted, buyerTier,
                   sellerTier, status, slept>>

\* No image url: mediaIds stays empty.
SkipImage ==
    /\ pc = "image"
    /\ ~sales[idx].nft.image_url
    /\ pc' = "tweet"
    /\ RetryLeave
    /\ UNCHANGED <<createCanvas, invocations, now, file, market, runVars, calls, attempted>>

\* A failed tweet that ends the run unless there is media to drop.
AfterTweetFailureAbort(media) == IF media > 0 THEN "fallback" ELSE "done"

\* A failed tweet that is always retried.
AfterTweetFailureAlways(media) == "fallback"

\* What follows a failed first tweet: if (mediaIds.length > 0) retry
\* without media, otherwise nothing more for this sale.
AfterTweetFailure(media) == IF media > 0 THEN "fallback" ELSE "pace"

\* await twitterClient.v2.tweet({ text, media })
Tweet(ok) ==
    LET sale == sales[idx] IN
    /\ pc = "tweet"
    /\ calls' = Append(calls, Call("tweet", sale.id, mediaIds > 0, ok))
    /\ attempted' = attempted \cup {sale.id}
    /\ pc' = IF ok THEN "pace" ELSE AfterTweetFailure(mediaIds)
    /\ results' = IF ok THEN Append(results, "posted")
                  ELSE IF pc' = "fallback" THEN results
                  ELSE Append(results, "failed")
    /\ UNCHANGED <<createCanvas, invocations, now, file, market, retryVars, sales,
                   readCheck, response, shouldAlert, idx, floorNFT, mediaIds,
                   buyerCount, sellerCount, started, buyerTier, sellerTier,
                   status, slept>>

\* await twitterClient.v2.tweet({ text }) in the catch block
Fallback(ok) ==
    LET sale == sales[idx] IN
    /\ pc = "fallback"
    /\ calls' = Append(calls, Call("fallback", sale.id, FALSE, ok))
    /\ results' = Append(results, IF ok THEN "fallback" ELSE "failed_both")
    /\ pc' = "pace"
    /\ UNCHANGED <<createCanvas, invocations, now, file, market, retryVars, sales,
                   readCheck, response, shouldAlert, idx, floorNFT, mediaIds,
                   buyerCount, sellerCount, started, attempted, buyerTier,
                   sellerTier, status, slept>>

\* await sleep(TWITTER_DELAY), then the next iteration of the loop.
Pace ==
    /\ pc = "pace"
    /\ slept' = Append(slept, TWITTER_DELAY)
    /\ BeginSale(idx + 1)
    /\ UNCHANGED <<createCanvas, invocations, now, file, market, sales, readCheck,
                   response, shouldAlert, floorNFT, results, attempted>>

\* await updateLastCheckTime(), the last statement of every path of runBot.
UpdateLastCheckTime(writeOk) ==
    /\ pc = "checkpoint"
    /\ file' = updateLastCheckTime(file, now, writeOk)
    /\ calls' = Append(calls, Call("lastCheck", 0, FALSE, writeOk))
    /\ pc' = "done"
    /\ RetryLeave
    /\ UNCHANGED <<createCanvas, invocations, now, market, runVars, attempted>>

\* The process exits; nothing but the file and the marketplace survives.
RunEnd ==
    /\ pc = "done"
    /\ pc' = "idle"
    /\ RetryLeave
    /\ sales' = <<>>
    /\ readCheck' = Undefined
    /\ response' = <<>>
    /\ shouldAlert' = FALSE
    /\ idx' = 0
    /\ floorNFT' = "null"
    /\ mediaIds' = 0
    /\ buyerCount' = 0
    /\ sellerCount' = 0
    /\ started' = <<>>
    /\ results' = <<>>
    /\ calls' = <<>>
    /\ buyerTier' = "none"
    /\ sellerTier' = "none"
    /\ status' = "none"
    /\ slept' = <<>>
    /\ UNCHANGED <<createCanvas, invocations, now, file, market, attempted>>

(***************************************************************************)
(* The pipeline under its scheduler: runs never overlap.                   *)
(***************************************************************************)
InitFiles == {Missing, Stored(Time(0), Time(0))}

Init ==
    /\ now = 0
    /\ file \in InitFiles
    /\ market = <<>>
    /\ pc = "idle"
    /\ rMax = 0
    /\ rDelay = 0
    /\ attempt = 1
    /\ tries = <<>>
    /\ waits = <<>>
    /\ outcome = "returned"
    /\ thrown = "none"
    /\ sales = <<>>
    /\ readCheck = Undefined
    /\ response = <<>>
    /\ shouldAlert = FALSE
    /\ idx = 0
    /\ floorNFT = "null"
    /\ mediaIds = 0
    /\ calls = <<>>
    /\ attempted = {}
    /\ buyerCount = 0
    /\ sellerCount = 0
    /\ started = <<>>
    /\ results = <<>>
    /\ buyerTier = "none"
    /\ sellerTier = "none"
    /\ status = "none"
    /\ slept = <<>>
    /\ createCanvas = FALSE
    /\ invocations = <<>>

Next ==
    \/ Tick
    \/ \E shape \in LiveShapes : SaleOccurs(shape)
    \/ ListedTwice
    \/ RunStart
    \/ FetchFails
    \/ FetchResponds
    \/ AlertCheck
    \/ \E listing \in {"null", "anon", "seller"} : FloorResponds(listing)
    \/ FloorFails
    \/ FloorSellerStart
    \/ \E ok \in BOOLEAN : FloorTweet(ok)
    \/ \E writeOk \in BOOLEAN : UpdateLastFloorAlert(writeOk)
    \/ HolderResponds
    \/ HolderFails
    \/ SellerStart
    \/ \E n \in Holdings : SellerResponds(n)
    \/ SellerFails
    \/ \E ok \in BOOLEAN : UploadImage(ok)
    \/ SkipImage
    \/ \E ok \in BOOLEAN : Tweet(ok)
    \/ \E ok \in BOOLEAN : Fallback(ok)
    \/ Pace
    \/ \E writeOk \in BOOLEAN : UpdateLastCheckTime(writeOk)
    \/ RunEnd

Spec == Init /\ [][Next]_vars

(***************************************************************************)
(* The retry executor on its own: any maxRetries, any delay, an action     *)
(* that fails or succeeds at each invocation.                              *)
(***************************************************************************)
RetryInit ==
    /\ now = 0
    /\ file = Missing
    /\ market = <<>>
    /\ pc = "retry"
    /\ rMax \in 0..MaxRetriesBound
    /\ rDelay \in Delays
    /\ attempt = 1
    /\ tries = <<>>
    /\ waits = <<>>
    /\ outcome = IF 1 <= rMax THEN "running" ELSE "returned"
    /\ thrown = "none"
    /\ sales = <<>>
    /\ readCheck = Undefined
    /\ response = <<>>
    /\ shouldAlert = FALSE
    /\ idx = 0
    /\ floorNFT = "null"
    /\ mediaIds = 0
    /\ calls = <<>>
    /\ attempted = {}
    /\ buyerCount = 0
    /\ sellerCount = 0
    /\ started = <<>>
    /\ results = <<>>
    /\ buyerTier = "none"
    /\ sellerTier = "none"
    /\ status = "none"
    /\ slept = <<>>
    /\ createCanvas = FALSE
    /\ invocations = <<>>

\* apiCall() resolves.
ActionSucceeds ==
    /\ pc = "retry"
    /\ RetryReturn
    /\ UNCHANGED <<createCanvas, invocations, now, file, market, pc, runVars, calls, attempted>>

\* apiCall() rejects with error e.
ActionFails(e) ==
    /\ pc = "retry"
    /\ RetryCatch(e)
    /\ UNCHANGED <<createCanvas, invocations, now, file, market, pc, runVars, calls, attempted>>

RetryNext ==
    \/ ActionSucceeds
    \/ \E e \in Errors : ActionFails(e)

RetrySpec == RetryInit /\ [][RetryNext]_vars

(***************************************************************************)
(* The pipeline over a given listing: the marketplace lists events of any  *)
(* shape, all of them newer than a stored checkpoint, and the clock stands *)
(* still while the runs go over them.                                      *)
(***************************************************************************)
IntakeFiles ==
    {Missing, Corrupt, Stored(Time(0), Time(0)), Stored(Time(0), Undefined),
     Stored(Undefined, Time(0))}

\* The listings of n events, the event at position i having id i.
Listings(n) ==
    {[i \in 1..n |-> Event(i, 1, shapes[i])] : shapes \in [1..n -> SaleShapes]}

IntakeInit ==
    /\ now = TicksPerSec
    /\ file \in IntakeFiles
    /\ \E n \in 0..MaxListing : market \in Listings(n)
    /\ pc = "idle"
    /\ rMax = 0
    /\ rDelay = 0
    /\ attempt = 1
    /\ tries = <<>>
    /\ waits = <<>>
    /\ outcome = "returned"
    /\ thrown = "none"
    /\ sales = <<>>
    /\ readCheck = Undefined
    /\ response = <<>>
    /\ shouldAlert = FALSE
    /\ idx = 0
    /\ floorNFT = "null"
    /\ mediaIds = 0
    /\ calls = <<>>
    /\ attempted = {}
    /\ buyerCount = 0
    /\ sellerCount = 0
    /\ started = <<>>
    /\ results = <<>>
    /\ buyerTier = "none"
    /\ sellerTier = "none"
    /\ status = "none"
    /\ slept = <<>>
    /\ createCanvas = FALSE
    /\ invocations = <<>>

IntakeNext ==
    \/ RunStart
    \/ FetchFails
    \/ FetchResponds
    \/ AlertCheck
    \/ \E listing \in {"null", "anon", "seller"} : FloorResponds(listing)
    \/ FloorFails
    \/ FloorSellerStart
    \/ \E ok \in BOOLEAN : FloorTweet(ok)
    \/ \E writeOk \in BOOLEAN : UpdateLastFloorAlert(writeOk)
    \/ HolderResponds
    \/ HolderFails
    \/ SellerStart
    \/ \E n \in Holdings : SellerResponds(n)
    \/ SellerFails
    \/ \E ok \in BOOLEAN : UploadImage(ok)
    \/ SkipImage
    \/ \E ok \in BOOLEAN : Tweet(ok)
    \/ \E ok \in BOOLEAN : Fallback(ok)
    \/ Pace
    \/ \E writeOk \in BOOLEAN : UpdateLastCheckTime(writeOk)
    \/ RunEnd

IntakeSpec == IntakeInit /\ [][IntakeNext]_vars

(***************************************************************************)
(* The classifier on its own: the three statements of the loop body that   *)
(* derive the tiers and the status line, for any two holding counts.       *)
(***************************************************************************)
Counts == (0 - MaxCount)..MaxCount

ClassifyInit ==
    /\ now = 0
    /\ file = Missing
    /\ market = <<>>
    /\ pc = "classify"
    /\ rMax = 0
    /\ rDelay = 0
    /\ attempt = 1
    /\ tries = <<>>
    /\ waits = <<>>
    /\ outcome = "returned"
    /\ thrown = "none"
    /\ sales = <<>>
    /\ readCheck = Undefined
    /\ response = <<>>
    /\ shouldAlert = FALSE
    /\ idx = 0
    /\ floorNFT = "null"
    /\ mediaIds = 0
    /\ calls = <<>>
    /\ attempted = {}
    /\ buyerCount \in Counts
    /\ sellerCount \in Counts
    /\ started = <<>>
    /\ results = <<>>
    /\ buyerTier = "none"
    /\ sellerTier = "none"
    /\ status = "none"
    /\ slept = <<>>
    /\ createCanvas = FALSE
    /\ invocations = <<>>

\* const buyerTier = getHolderTier(buyerCount)
ClassifyBuyer ==
    /\ pc = "classify"
    /\ buyerTier' = getHolderTier(buyerCount)
    /\ pc' = "classify_seller"
    /\ UNCHANGED <<createCanvas, invocations, now, file, market, retryVars, sales,
                   readCheck, response, shouldAlert, idx, floorNFT, mediaIds,
                   buyerCount, sellerCount, started, results, calls,
                   attempted, sellerTier, status, slept>>

\* let sellerTier = 'unknown'; if (sellerAddress) sellerTier =
\* getHolderTier(sellerCount); sellerCount stays 0 without an address.
ClassifySeller(known) ==
    /\ pc = "classify_seller"
    /\ ~known => sellerCount = 0
    /\ sellerTier' = IF known THEN getHolderTier(sellerCount) ELSE "unknown"
    /\ pc' = "classify_status"
    /\ UNCHANGED <<createCanvas, invocations, now, file, market, retryVars, sales,
                   readCheck, response, shouldAlert, idx, floorNFT, mediaIds,
                   buyerCount, sellerCount, started, results, calls,
                   attempted, buyerTier, status, slept>>

\* const status = getTransactionStatus(buyerTier, sellerTier)
ClassifyStatus ==
    /\ pc = "classify_status"
    /\ status' = getTransactionStatus(buyerTier, sellerTier)
    /\ pc' = "classified"
    /\ UNCHANGED <<createCanvas, invocations, now, file, market, retryVars, sales,
                   readCheck, response, shouldAlert, idx, floorNFT, mediaIds,
                   buyerCount, sellerCount, started, results, calls,
                   attempted, buyerTier, sellerTier, slept>>

ClassifyNext ==
    \/ ClassifyBuyer
    \/ \E known \in BOOLEAN : ClassifySeller(known)
    \/ ClassifyStatus

ClassifySpec == ClassifyInit /\ [][ClassifyNext]_vars

(***************************************************************************)
(* The earlier draft of the pipeline (the first runBot of src/bot.js, the  *)
(* one that draws an investigation card with the canvas module), over a    *)
(* given listing, the clock standing still.  Its fetch has no timestamp    *)
(* filter, its floor alert does not wait for a run without sales, and its  *)
(* loop body uploads the card before it tweets.                            *)
(***************************************************************************)
\* An event that also carries the fields of the v1 endpoint.
WithAccount(shape) == [shape EXCEPT !.winner_account = TRUE]
WithAsset(shape) == [shape EXCEPT !.asset = TRUE]

EarlyShapes ==
    { GoodSale,
      WithAccount(GoodSale),
      WithAsset(WithAccount(GoodSale)),
      Shape("transfer", Nft(TRUE), TRUE, TRUE, Num(1), Payment(Str(1500))) }

EarlyListings(n) ==
    {[i \in 1..n |-> Event(i, 1, shapes[i])] : shapes \in [1..n -> EarlyShapes]}

EarlyFiles == {Missing, Stored(Time(0), Time(0))}

\* shouldPostFloorAlert of the earlier draft: 20 hours.
EarlyShouldPostFloorAlert(f, clock) ==
    IF f.st # "ok" THEN TRUE
    ELSE IF ~f.lastFloorAlert.def THEN TRUE
    ELSE clock - f.lastFloorAlert.t >= EarlyFloorAlertHours * HourTicks

\* updateLastCheckTime of the earlier draft: the file is replaced by an
\* object that holds lastCheck only; a failed write leaves it as it was.
EarlyUpdateLastCheckTimeFile(f, clock, writeOk) ==
    IF writeOk THEN Stored(Time(clock), Undefined) ELSE f

\* The events of the response of the earlier draft: limit 10.
EarlyResponseOf(listing) ==
    SubSeq(listing, 1, IF Len(listing) < EarlyResponseLimit THEN Len(listing)
                       ELSE EarlyResponseLimit)

EarlyInit ==
    /\ now = TicksPerSec
    /\ file \in EarlyFiles
    /\ \E n \in 0..MaxListing : market \in EarlyListings(n)
    /\ pc = "idle"
    /\ rMax = 0
    /\ rDelay = 0
    /\ attempt = 1
    /\ tries = <<>>
    /\ waits = <<>>
    /\ outcome = "returned"
    /\ thrown = "none"
    /\ sales = <<>>
    /\ readCheck = Undefined
    /\ response = <<>>
    /\ shouldAlert = FALSE
    /\ idx = 0
    /\ floorNFT = "null"
    /\ mediaIds = 0
    /\ calls = <<>>
    /\ attempted = {}
    /\ buyerCount = 0
    /\ sellerCount = 0
    /\ started = <<>>
    /\ results = <<>>
    /\ buyerTier = "none"
    /\ sellerTier = "none"
    /\ status = "none"
    /\ slept = <<>>
    /\ createCanvas \in BOOLEAN
    /\ invocations = <<>>

\* One invocation of the fetch closure in which the request fails.
EarlyFetchFails ==
    /\ pc = "fetch"
    /\ RetryCatch(NetError)
    /\ response' = <<>>
    /\ sales' = <<>>
    /\ pc' = IF outcome' = "running" THEN "fetch" ELSE "alert_check"
    /\ UNCHANGED <<createCanvas, invocations, now, file, market, readCheck, shouldAlert,
                   idx, floorNFT, mediaIds, buyerCount, sellerCount, started,
                   results, calls, attempted, buyerTier, sellerTier, status,
                   slept>>

\* The marketplace answers: events.filter(isValidSaleEvent), no filter on
\* the timestamp.
EarlyFetchResponds ==
    /\ pc = "fetch"
    /\ RetryReturn
    /\ response' = EarlyResponseOf(market)
    /\ sales' = SelectSeq(response', isValidSaleEvent)
    /\ pc' = "alert_check"
    /\ UNCHANGED <<createCanvas, invocations, now, file, market, readCheck, shouldAlert,
                   idx, floorNFT, mediaIds, buyerCount, sellerCount, started,
                   results, calls, attempted, buyerTier, sellerTier, status,
                   slept>>

\* const shouldAlert = await shouldPostFloorAlert(); the early return of a
\* run with nothing to do; if (shouldAlert) the floor alert, whether or not
\* there are sales.
EarlyAlertCheck ==
    LET alert == EarlyShouldPostFloorAlert(file, now) IN
    /\ pc = "alert_check"
    /\ shouldAlert' = alert
    /\ IF sales = <<>> /\ ~alert
       THEN pc' = "checkpoint" /\ RetryLeave
       ELSE IF alert
       THEN pc' = "floor" /\ RetryEnter(DefaultMaxRetries, RETRY_DELAY)
       ELSE pc' = "after_floor" /\ RetryLeave
    /\ UNCHANGED <<createCanvas, invocations, now, file, market, sales, readCheck,
                   response, idx, floorNFT, mediaIds, buyerCount, sellerCount,
                   started, results, calls, attempted, buyerTier, sellerTier,
                   status, slept>>

\* getFloorPriceNFT answers: no listing, or a listing (the object this
\* draft builds has no seller address).
EarlyFloorResponds(listing) ==
    /\ pc = "floor"
    /\ RetryReturn
    /\ floorNFT' = listing
    /\ pc' = IF listing = "null" THEN "after_floor" ELSE "floor_card"
    /\ UNCHANGED <<createCanvas, invocations, now, file, market, sales, readCheck,
                   response, shouldAlert, idx, mediaIds, buyerCount,
                   sellerCount, started, results, calls, attempted, buyerTier,
                   sellerTier, status, slept>>

\* The listings request fails; after the last attempt the handler returns
\* null.
EarlyFloorFails ==
    /\ pc = "floor"
    /\ RetryCatch(NetError)
    /\ floorNFT' = "null"
    /\ pc' = IF outcome' = "running" THEN "floor" ELSE "after_floor"
    /\ UNCHANGED <<createCanvas, invocations, now, file, market, sales, readCheck,
                   response, shouldAlert, idx, mediaIds, buyerCount,
                   sellerCount, started, results, calls, attempted, buyerTier,
                   sellerTier, status, slept>>

\* getNFTImageUrl (which never raises), createFloorAlertImage (null without
\* the canvas module) and the upload of the card: uploadMedia throws on a
\* null buffer, and may fail on a real one; the catch block of the floor
\* alert takes either.
EarlyFloorCardUpload(ok) ==
    /\ pc = "floor_card"
    /\ ok => createCanvas
    /\ calls' = Append(calls, Call("floorCard", 0, FALSE, ok))
    /\ pc' = IF ok THEN "floor_tweet" ELSE "after_floor"
    /\ RetryLeave
    /\ UNCHANGED <<createCanvas, invocations, now, file, market, runVars, attempted>>

\* The floor alert tweet, with the card; a failure goes to the catch block.
EarlyFloorTweet(ok) ==
    /\ pc = "floor_tweet"
    /\ calls' = Append(calls, Call("floorTweet", 0, TRUE, ok))
    /\ pc' = IF ok THEN "floor_mark" ELSE "after_floor"
    /\ UNCHANGED <<createCanvas, invocations, now, file, market, retryVars, runVars,
                   attempted>>

\* await updateLastFloorAlert(); await sleep(TWITTER_DELAY)
EarlyUpdateLastFloorAlert(writeOk) ==
    /\ pc = "floor_mark"
    /\ file' = updateLastFloorAlert(file, now, writeOk)
    /\ calls' = Append(calls, Call("lastFloorAlert", 0, FALSE, writeOk))
    /\ slept' = Append(slept, TWITTER_DELAY)
    /\ pc' = "after_floor"
    /\ UNCHANGED <<createCanvas, invocations, now, market, retryVars, sales, readCheck,
                   response, shouldAlert, idx, floorNFT, mediaIds, buyerCount,
                   sellerCount, started, results, attempted, buyerTier,
                   sellerTier, status>>

\* if (sales.length === 0) { await updateLastCheckTime(); return; } and
\* otherwise the loop over sales.slice(0, 3).
EarlySalesCheck ==
    /\ pc = "after_floor"
    /\ IF sales = <<>>
       THEN /\ pc' = "checkpoint"
            /\ RetryLeave
            /\ UNCHANGED <<idx, mediaIds, buyerCount, sellerCount, started,
                           calls, buyerTier, sellerTier, status>>
       ELSE BeginSale(1)
    /\ UNCHANGED <<createCanvas, invocations, now, file, market, sales, readCheck,
                   response, shouldAlert, floorNFT, results, attempted, slept>>

\* getHolderNFTCount of the earlier draft: Math.max(totalCount, 1)
EarlyHolderResponds ==
    /\ pc = "buyer"
    /\ RetryReturn
    /\ buyerCount' = Max(sales[idx].buyerNfts, 1)
    /\ buyerTier' = getHolderTier(buyerCount')
    /\ pc' = "seller"
    /\ UNCHANGED <<createCanvas, invocations, now, file, market, sales, readCheck,
                   response, shouldAlert, idx, floorNFT, mediaIds, sellerCount,
                   started, results, calls, attempted, sellerTier, status,
                   slept>>

\* The assets request fails; the handler returns 1.
EarlyHolderFails ==
    /\ pc = "buyer"
    /\ RetryCatch(NetError)
    /\ IF outcome' = "running"
       THEN pc' = "buyer" /\ buyerCount' = buyerCount /\ buyerTier' = buyerTier
       ELSE /\ pc' = "seller"
            /\ buyerCount' = 1
            /\ buyerTier' = getHolderTier(buyerCount')
    /\ UNCHANGED <<createCanvas, invocations, now, file, market, sales, readCheck,
                   response, shouldAlert, idx, floorNFT, mediaIds, sellerCount,
                   started, results, calls, attempted, sellerTier, status,
                   slept>>

\* let sellerTier = 'unknown'; if (sale.seller) sellerCount = await
\* getSellerNFTCount(sale.seller)
EarlySellerStart ==
    LET sale == sales[idx] IN
    /\ pc = "seller"
    /\ sellerTier' = "unknown"
    /\ IF sale.seller
       THEN RetryEnter(DefaultMaxRetries, RETRY_DELAY) /\ pc' = "seller_call"
       ELSE RetryLeave /\ pc' = "card"
    /\ UNCHANGED <<createCanvas, invocations, now, file, market, sales, readCheck,
                   response, shouldAlert, idx, floorNFT, mediaIds, buyerCount,
                   sellerCount, started, results, calls, attempted, buyerTier,
                   status, slept>>

\* getSellerNFTCount of the earlier draft: response.data.assets?.length || 0
EarlySellerResponds ==
    /\ pc = "seller_call"
    /\ RetryReturn
    /\ sellerCount' = sales[idx].sellerNfts
    /\ sellerTier' = getHolderTier(sellerCount')
    /\ pc' = "card"
    /\ UNCHANGED <<createCanvas, invocations, now, file, market, sales, readCheck,
                   response, shouldAlert, idx, floorNFT, mediaIds, buyerCount,
                   started, results, calls, attempted, buyerTier, status,
                   slept>>

\* The assets request fails; the handler returns 0.
EarlySellerFails ==
    /\ pc = "seller_call"
    /\ RetryCatch(NetError)
    /\ IF outcome' = "running"
       THEN pc' = pc /\ UNCHANGED <<sellerCount, sellerTier>>
       ELSE /\ pc' = "card"
            /\ sellerCount' = 0
            /\ sellerTier' = getHolderTier(sellerCount')
    /\ UNCHANGED <<createCanvas, invocations, now, file, market, sales, readCheck,
                   response, shouldAlert, idx, floorNFT, mediaIds, buyerCount,
                   started, results, calls, attempted, buyerTier, status,
                   slept>>

\* getNFTImageUrl (which never raises) and createSaleImage, both before the
\* try block of the loop body.  Without the canvas module the card is null;
\* with it, createSaleImage reads sale.winner_account.address and
\* sale.asset.name, and the TypeError of an event without them reaches the
\* catch block of runBot.
EarlyCreateSaleImage ==
    LET sale == sales[idx] IN
    /\ pc = "card"
    /\ pc' = IF createCanvas /\ ~(sale.winner_account /\ sale.asset)
             THEN "bot_error" ELSE "card_upload"
    /\ RetryLeave
    /\ UNCHANGED <<createCanvas, invocations, now, file, market, runVars, calls, attempted>>

\* The upload of the card, first statement of the try block: uploadMedia
\* throws on a null buffer and may fail on a real one; the catch block of
\* the loop body takes either.
EarlyCardUpload(ok) ==
    LET sale == sales[idx] IN
    /\ pc = "card_upload"
    /\ ok => createCanvas
    /\ calls' = Append(calls, Call("card", sale.id, FALSE, ok))
    /\ mediaIds' = IF ok THEN 1 ELSE 0
    /\ pc' = IF ok THEN "nft_image" ELSE "next"
    /\ UNCHANGED <<createCanvas, invocations, now, file, market, retryVars, sales,
                   readCheck, response, shouldAlert, idx, floorNFT, buyerCount,
                   sellerCount, started, results, attempted, buyerTier,
                   sellerTier, status, slept>>

\* if (nftImageUrl): fetch the image and upload it; a failure of either is
\* caught and the tweet goes on with the card alone.
EarlyNftImage(ok) ==
    LET sale == sales[idx] IN
    /\ pc = "nft_image"
    /\ calls' = Append(calls, Call("image", sale.id, FALSE, ok))
    /\ mediaIds' = IF ok THEN mediaIds + 1 ELSE mediaIds
    /\ pc' = "tweet"
    /\ UNCHANGED <<createCanvas, invocations, now, file, market, retryVars, sales,
                   readCheck, response, shouldAlert, idx, floorNFT, buyerCount,
                   sellerCount, started, results, attempted, buyerTier,
                   sellerTier, status, slept>>

\* getNFTImageUrl gave no url: the card alone.
EarlySkipNftImage ==
    /\ pc = "nft_image"
    /\ pc' = "tweet"
    /\ UNCHANGED <<createCanvas, invocations, now, file, market, retryVars, runVars, calls,
                   attempted>>

\* await twitterClient.v2.tweet({ text, media }); console.log(sale.asset.name)
\* A failed tweet, or an event without an asset object, goes to the catch
\* block of the loop body, past the sleep.
EarlyTweet(ok) ==
    LET sale == sales[idx] IN
    /\ pc = "tweet"
    /\ calls' = Append(calls, Call("tweet", sale.id, mediaIds > 0, ok))
    /\ attempted' = attempted \cup {sale.id}
    /\ results' = Append(results, IF ok THEN "posted" ELSE "failed")
    /\ pc' = IF ok /\ sale.asset THEN "pace" ELSE "next"
    /\ UNCHANGED <<createCanvas, invocations, now, file, market, retryVars, sales,
                   readCheck, response, shouldAlert, idx, floorNFT, mediaIds,
                   buyerCount, sellerCount, started, buyerTier, sellerTier,
                   status, slept>>

\* await sleep(TWITTER_DELAY), last statement of the try block, then the
\* next iteration.
EarlyPace ==
    /\ pc = "pace"
    /\ slept' = Append(slept, TWITTER_DELAY)
    /\ BeginSale(idx + 1)
    /\ UNCHANGED <<createCanvas, invocations, now, file, market, sales, readCheck,
                   response, shouldAlert, floorNFT, results, attempted>>

\* catch (twitterError) { console.error(...) }, then the next iteration.
EarlyCatchTwitterError ==
    /\ pc = "next"
    /\ BeginSale(idx + 1)
    /\ UNCHANGED <<createCanvas, invocations, now, file, market, sales, readCheck,
                   response, shouldAlert, floorNFT, results, attempted, slept>>

\* await updateLastCheckTime(); a failed write is not caught there: the
\* rejection of fs.writeFile reaches the catch block of runBot.
EarlyUpdateLastCheckTime(writeOk) ==
    /\ pc = "checkpoint"
    /\ file' = EarlyUpdateLastCheckTimeFile(file, now, writeOk)
    /\ calls' = Append(calls, Call("lastCheck", 0, FALSE, writeOk))
    /\ pc' = IF writeOk THEN "done" ELSE "bot_error"
    /\ RetryLeave
    /\ UNCHANGED <<createCanvas, invocations, now, market, runVars, attempted>>

\* catch (error) { console.error('Bot error:', error.message); }
EarlyBotError ==
    /\ pc = "bot_error"
    /\ pc' = "done"
    /\ UNCHANGED <<createCanvas, invocations, now, file, market, retryVars, runVars, calls,
                   attempted>>

EarlyNext ==
    \/ RunStart
    \/ EarlyFetchFails
    \/ EarlyFetchResponds
    \/ EarlyAlertCheck
    \/ \E listing \in {"null", "anon"} : EarlyFloorResponds(listing)
    \/ EarlyFloorFails
    \/ \E ok \in BOOLEAN : EarlyFloorCardUpload(ok)
    \/ \E ok \in BOOLEAN : EarlyFloorTweet(ok)
    \/ \E writeOk \in BOOLEAN : EarlyUpdateLastFloorAlert(writeOk)
    \/ EarlySalesCheck
    \/ EarlyHolderResponds
    \/ EarlyHolderFails
    \/ EarlySellerStart
    \/ EarlySellerResponds
    \/ EarlySellerFails
    \/ EarlyCreateSaleImage
    \/ \E ok \in BOOLEAN : EarlyCardUpload(ok)
    \/ \E ok \in BOOLEAN : EarlyNftImage(ok)
    \/ EarlySkipNftImage
    \/ \E ok \in BOOLEAN : EarlyTweet(ok)
    \/ EarlyPace
    \/ EarlyCatchTwitterError
    \/ \E writeOk \in BOOLEAN : EarlyUpdateLastCheckTime(writeOk)
    \/ EarlyBotError
    \/ RunEnd

EarlySpec == EarlyInit /\ [][EarlyNext]_vars

(***************************************************************************)
(* The alert gate on its own: shouldPostFloorAlert of both drafts, asked   *)
(* around the hours at which the answer changes, of a checkpoint file      *)
(* whose lastFloorAlert, when there is one, was stored at time 0.          *)
(***************************************************************************)
\* The retry executor and the variables of runBot as they are between runs.
AtRest ==
    /\ rMax = 0
    /\ rDelay = 0
    /\ attempt = 1
    /\ tries = <<>>
    /\ waits = <<>>
    /\ outcome = "returned"
    /\ thrown = "none"
    /\ sales = <<>>
    /\ readCheck = Undefined
    /\ response = <<>>
    /\ shouldAlert = FALSE
    /\ idx = 0
    /\ floorNFT = "null"
    /\ mediaIds = 0
    /\ calls = <<>>
    /\ attempted = {}
    /\ buyerCount = 0
    /\ sellerCount = 0
    /\ started = <<>>
    /\ results = <<>>
    /\ buyerTier = "none"
    /\ sellerTier = "none"
    /\ status = "none"
    /\ slept = <<>>

GateHours == {19, 20, 21, 71, 72, 73}

GateClocks ==
    {h * HourTicks + d : h \in GateHours, d \in (0 - MaxClock)..MaxClock}

GateInit ==
    /\ now \in GateClocks
    /\ file \in IntakeFiles
    /\ market = <<>>
    /\ pc = "gate"
    /\ AtRest
    /\ createCanvas = FALSE
    /\ invocations = <<>>

\* const shouldAlert = await shouldPostFloorAlert()
GateAsk ==
    /\ pc = "gate"
    /\ shouldAlert' = shouldPostFloorAlert(file, now)
    /\ pc' = "asked"
    /\ UNCHANGED <<createCanvas, invocations, now, file, market, retryVars, sales,
                   readCheck, response, idx, floorNFT, mediaIds, buyerCount,
                   sellerCount, started, results, calls, attempted, buyerTier,
                   sellerTier, status, slept>>

\* The same question put to the earlier draft.
EarlyGateAsk ==
    /\ pc = "gate"
    /\ shouldAlert' = EarlyShouldPostFloorAlert(file, now)
    /\ pc' = "asked_early"
    /\ UNCHANGED <<createCanvas, invocations, now, file, market, retryVars, sales,
                   readCheck, response, idx, floorNFT, mediaIds, buyerCount,
                   sellerCount, started, results, calls, attempted, buyerTier,
                   sellerTier, status, slept>>

\* await updateLastFloorAlert() after an alert, and the next question.
GateMark(writeOk) ==
    /\ pc \in {"asked", "asked_early"}
    /\ shouldAlert
    /\ file' = updateLastFloorAlert(file, now, writeOk)
    /\ pc' = "gate"
    /\ UNCHANGED <<createCanvas, invocations, now, market, retryVars, runVars, calls,
                   attempted>>

GateNext ==
    \/ GateAsk
    \/ EarlyGateAsk
    \/ \E writeOk \in BOOLEAN : GateMark(writeOk)

GateSpec == GateInit /\ [][GateNext]_vars

(***************************************************************************)
(* One run from a stored checkpoint over a listing that holds one valid    *)
(* sale made ten seconds after it, bought by a holder of 30 from a holder  *)
(* of none.  The marketplace answers, at the latest on the last attempt;   *)
(* the publisher and the file system work.  The run starts after the sale  *)
(* has been listed.                                                        *)
(***************************************************************************)
\* The sale of the scenario, and events around it that do not qualify: a
\* sale of the very second of the checkpoint, and a bundle.
ScenarioSale(t0, img) ==
    Event(1, ToSeconds(t0) + 10,
          Holding(Shape("sale", Nft(img), TRUE, TRUE, Num(1),
                        Payment(Str(1500))), 30, 0))

ScenarioOthers(t0) ==
    { Event(2, ToSeconds(t0), GoodSale),
      Event(3, ToSeconds(t0) + 10,
            Shape("sale", Nft(TRUE), TRUE, TRUE, Num(2), Payment(Str(1500)))) }

ScenarioListings(t0) ==
    UNION { {<<s>>}
            \cup {<<o, s>> : o \in ScenarioOthers(t0)}
            \cup {<<s, o>> : o \in ScenarioOthers(t0)}
          : s \in {ScenarioSale(t0, img) : img \in BOOLEAN} }

ScenarioInit ==
    /\ \E t0 \in 0..MaxClock :
          /\ file \in {Stored(Time(t0), Undefined), Stored(Time(t0), Time(t0))}
          /\ market \in ScenarioListings(t0)
          /\ now \in {t0 + 10 * TicksPerSec + d : d \in 1..(MaxClock + 1)}
    /\ pc = "idle"
    /\ AtRest
    /\ createCanvas = FALSE
    /\ invocations = <<>>

\* A failed attempt that is not the last one.
FetchFailsOnce == FetchFails /\ outcome' = "running"
HolderFailsOnce == HolderFails /\ outcome' = "running"
SellerFailsOnce == SellerFails /\ outcome' = "running"

ScenarioNext ==
    \/ RunStart
    \/ FetchFailsOnce
    \/ FetchResponds
    \/ AlertCheck
    \/ HolderResponds
    \/ HolderFailsOnce
    \/ SellerStart
    \/ \E n \in Holdings : SellerResponds(n)
    \/ SellerFailsOnce
    \/ \E ok \in BOOLEAN : UploadImage(ok)
    \/ SkipImage
    \/ Tweet(TRUE)
    \/ Pace
    \/ UpdateLastCheckTime(TRUE)

ScenarioSpec == ScenarioInit /\ [][ScenarioNext]_vars

(***************************************************************************)
(* The process as it is launched: with --test it runs runTests, without it *)
(* runBot.  The listing is as in IntakeSpec, one event shorter.            *)
(***************************************************************************)
TestPcs ==
    {"test_fetch", "test_floor", "test_floor_call", "test_me", "test_image",
     "test_done"}

TestInit ==
    /\ now = TicksPerSec
    /\ file \in IntakeFiles
    /\ \E n \in 0..(MaxListing - 1) : market \in Listings(n)
    /\ pc = "idle"
    /\ AtRest
    /\ createCanvas = FALSE
    /\ invocations = <<>>

\* process.argv.includes('--test'): runTests() starts with fetchRecentSales.
TestStart ==
    /\ pc = "idle"
    /\ pc' = "test_fetch"
    /\ RetryEnter(DefaultMaxRetries, RETRY_DELAY)
    /\ UNCHANGED <<createCanvas, invocations, now, file, market, runVars, calls, attempted>>

\* One invocation of the fetch closure in which the request fails.
TestFetchFails ==
    /\ pc = "test_fetch"
    /\ RetryCatch(NetError)
    /\ readCheck' = getLastCheckTime(file, now)
    /\ response' = <<>>
    /\ sales' = IF outcome' = "thrown" THEN FetchCatchValue ELSE <<>>
    /\ pc' = IF outcome' = "running" THEN "test_fetch" ELSE "test_floor"
    /\ UNCHANGED <<createCanvas, invocations, now, file, market, shouldAlert, idx, floorNFT,
                   mediaIds, buyerCount, sellerCount, started, results, calls,
                   attempted, buyerTier, sellerTier, status, slept>>

\* One invocation of the fetch closure in which the marketplace answers.
TestFetchResponds ==
    LET lastCheck == getLastCheckTime(file, now)
        events == ResponseOf(market)
    IN /\ pc = "test_fetch"
       /\ readCheck' = lastCheck
       /\ response' = events
       /\ IF lastCheck.def
          THEN /\ RetryReturn
               /\ sales' = FilterSales(events, lastCheck)
          ELSE /\ RetryCatch(RangeError)
               /\ sales' = IF outcome' = "thrown" THEN FetchCatchValue ELSE <<>>
       /\ pc' = IF outcome' = "running" THEN "test_fetch" ELSE "test_floor"
       /\ UNCHANGED <<createCanvas, invocations, now, file, market, shouldAlert, idx,
                      floorNFT, mediaIds, buyerCount, sellerCount, started,
                      results, calls, attempted, buyerTier, sellerTier, status,
                      slept>>

\* const floorNFT = await getFloorPriceNFT()
TestFloorStart ==
    /\ pc = "test_floor"
    /\ pc' = "test_floor_call"
    /\ RetryEnter(DefaultMaxRetries, RETRY_DELAY)
    /\ UNCHANGED <<createCanvas, invocations, now, file, market, runVars, calls, attempted>>

TestFloorResponds(listing) ==
    /\ pc = "test_floor_call"
    /\ RetryReturn
    /\ floorNFT' = listing
    /\ pc' = "test_me"
    /\ UNCHANGED <<createCanvas, invocations, now, file, market, sales, readCheck,
                   response, shouldAlert, idx, mediaIds, buyerCount,
                   sellerCount, started, results, calls, attempted, buyerTier,
                   sellerTier, status, slept>>

TestFloorFails ==
    /\ pc = "test_floor_call"
    /\ RetryCatch(NetError)
    /\ floorNFT' = "null"
    /\ pc' = IF outcome' = "running" THEN "test_floor_call" ELSE "test_me"
    /\ UNCHANGED <<createCanvas, invocations, now, file, market, sales, readCheck,
                   response, shouldAlert, idx, mediaIds, buyerCount,
                   sellerCount, started, results, calls, attempted, buyerTier,
                   sellerTier, status, slept>>

\* A test of the publisher that posts.
TestMeByTweet(ok) ==
    /\ pc = "test_me"
    /\ calls' = Append(calls, Call("tweet", 0, FALSE, ok))
    /\ pc' = "test_image"
    /\ RetryEnter(DefaultMaxRetries, RETRY_DELAY)
    /\ UNCHANGED <<createCanvas, invocations, now, file, market, runVars, attempted>>

\* const me = await twitterClient.v2.me(), in its try block; then the call
\* of getNFTImageUrl.
TestMe(ok) ==
    /\ pc = "test_me"
    /\ calls' = Append(calls, Call("me", 0, FALSE, ok))
    /\ pc' = "test_image"
    /\ RetryEnter(DefaultMaxRetries, RETRY_DELAY)
    /\ UNCHANGED <<createCanvas, invocations, now, file, market, runVars, attempted>>

\* getNFTImageUrl answers, with a url or without one.
TestImageResponds(url) ==
    /\ pc = "test_image"
    /\ RetryReturn
    /\ calls' = Append(calls, Call("imageUrl", 0, FALSE, url))
    /\ pc' = "test_done"
    /\ UNCHANGED <<createCanvas, invocations, now, file, market, runVars, attempted>>

\* The request fails; after the last attempt the handler returns null.
TestImageFails ==
    /\ pc = "test_image"
    /\ RetryCatch(NetError)
    /\ pc' = IF outcome' = "running" THEN "test_image" ELSE "test_done"
    /\ UNCHANGED <<createCanvas, invocations, now, file, market, runVars, calls, attempted>>

\* 'Test completed!': the process exits.
TestEnd ==
    /\ pc = "test_done"
    /\ pc' = "idle"
    /\ RetryLeave
    /\ sales' = <<>>
    /\ readCheck' = Undefined
    /\ response' = <<>>
    /\ floorNFT' = "null"
    /\ calls' = <<>>
    /\ UNCHANGED <<createCanvas, invocations, now, file, market, shouldAlert, idx, mediaIds,
                   buyerCount, sellerCount, started, results, attempted,
                   buyerTier, sellerTier, status, slept>>

TestNext ==
    \/ TestStart
    \/ TestFetchFails
    \/ TestFetchResponds
    \/ TestFloorStart
    \/ \E listing \in {"null", "anon", "seller"} : TestFloorResponds(listing)
    \/ TestFloorFails
    \/ \E ok \in BOOLEAN : TestMe(ok)
    \/ \E url \in BOOLEAN : TestImageResponds(url)
    \/ TestImageFails
    \/ TestEnd
    \/ IntakeNext

TestSpec == TestInit /\ [][TestNext]_vars

(***************************************************************************)
(* Two invocations of the process side by side, as far as they touch       *)
(* last-check.json: each decides whether it takes the alert path, and each *)
(* of its updaters reads the file and writes it back in two steps, between *)
(* which the other invocation may run and the clock may advance.  Nothing  *)
(* keeps the scheduler from starting an invocation while the other one is  *)
(* in progress; an invocation started while the other is idle, and ended   *)
(* before the other starts, does not overlap.                              *)
(***************************************************************************)
Runs == {1, 2}

FieldNames == {"lastCheck", "lastFloorAlert"}

Invocation(p, d, o, r) == [pc |-> p, data |-> d, overlapped |-> o, reverted |-> r]

Idle == Invocation("idle", Stored(Undefined, Undefined), FALSE, {})

Active(r) == invocations[r].pc # "idle"

OverlapInit ==
    /\ now = TicksPerSec
    /\ file \in IntakeFiles
    /\ market = <<>>
    /\ pc = "overlap"
    /\ AtRest
    /\ createCanvas = FALSE
    /\ invocations = [r \in Runs |-> Idle]

OverlapTick ==
    /\ pc = "overlap"
    /\ now < TicksPerSec + MaxClock
    /\ now' = now + 1
    /\ UNCHANGED <<createCanvas, invocations, file, market, pc, retryVars,
                   runVars, calls, attempted>>

\* Invocation r starts and reaches the branch on shouldAlert: it takes the
\* alert path up to updateLastFloorAlert when an alert is due, there are no
\* sales and a floor listing is obtained (alertPath), and goes on to its
\* updateLastCheckTime otherwise.  Every invocation in progress at that
\* moment overlaps with it.
OverlapAlertCheck(r, alertPath) ==
    /\ pc = "overlap"
    /\ ~Active(r)
    /\ alertPath => shouldPostFloorAlert(file, now)
    /\ invocations' =
          [q \in Runs |->
              IF q = r
              THEN Invocation(IF alertPath THEN "alert_read" ELSE "check_read",
                              Stored(Undefined, Undefined),
                              \E o \in Runs \ {r} : Active(o), {})
              ELSE IF Active(q)
              THEN [invocations[q] EXCEPT !.overlapped = TRUE]
              ELSE invocations[q]]
    /\ UNCHANGED <<createCanvas, now, file, market, pc, retryVars, runVars,
                   calls, attempted>>

\* An updater that starts from an empty object whatever the file holds.
OverlapReadNothing(r) ==
    /\ pc = "overlap"
    /\ invocations[r].pc \in {"alert_read", "check_read"}
    /\ invocations' =
          [invocations EXCEPT
              ![r].data = Stored(Undefined, Undefined),
              ![r].pc = IF invocations[r].pc = "alert_read"
                        THEN "alert_write" ELSE "check_write"]
    /\ UNCHANGED <<createCanvas, now, file, market, pc, retryVars, runVars,
                   calls, attempted>>

\* let data = {}; try { data = JSON.parse(await fs.readFile(...)) } catch
\* (e) {} in updateLastFloorAlert and in updateLastCheckTime.
OverlapRead(r) ==
    /\ pc = "overlap"
    /\ invocations[r].pc \in {"alert_read", "check_read"}
    /\ invocations' =
          [invocations EXCEPT
              ![r].data = ReadData(file),
              ![r].pc = IF invocations[r].pc = "alert_read"
                        THEN "alert_write" ELSE "check_write"]
    /\ UNCHANGED <<createCanvas, now, file, market, pc, retryVars, runVars,
                   calls, attempted>>

\* The fields of the stored state, other than the one written, that a write
\* replaces by a different value.
Reverted(written, old, new) ==
    {f \in FieldNames \ {written} : ReadData(new)[f] # ReadData(old)[f]}

\* data.lastFloorAlert = new Date().toISOString(); await fs.writeFile(...)
\* in updateLastFloorAlert; the invocation goes on to updateLastCheckTime.
OverlapWriteAlert(r, writeOk) ==
    /\ pc = "overlap"
    /\ invocations[r].pc = "alert_write"
    /\ file' = IF writeOk
               THEN updateLastFloorAlert(invocations[r].data, now, TRUE)
               ELSE file
    /\ invocations' =
          [invocations EXCEPT
              ![r].pc = "check_read",
              ![r].reverted = @ \cup Reverted("lastFloorAlert", file, file')]
    /\ UNCHANGED <<createCanvas, now, market, pc, retryVars, runVars, calls,
                   attempted>>

\* data.lastCheck = new Date().toISOString(); await fs.writeFile(...) in
\* updateLastCheckTime; the invocation ends.
OverlapWriteCheck(r, writeOk) ==
    /\ pc = "overlap"
    /\ invocations[r].pc = "check_write"
    /\ file' = IF writeOk
               THEN updateLastCheckTime(invocations[r].data, now, TRUE)
               ELSE file
    /\ invocations' =
          [invocations EXCEPT
              ![r].pc = "idle",
              ![r].reverted = @ \cup Reverted("lastCheck", file, file')]
    /\ UNCHANGED <<createCanvas, now, market, pc, retryVars, runVars, calls,
                   attempted>>

OverlapNext ==
    \/ OverlapTick
    \/ \E r \in Runs, alertPath \in BOOLEAN : OverlapAlertCheck(r, alertPath)
    \/ \E r \in Runs : OverlapRead(r)
    \/ \E r \in Runs, writeOk \in BOOLEAN : OverlapWriteAlert(r, writeOk)
    \/ \E r \in Runs, writeOk \in BOOLEAN : OverlapWriteCheck(r, writeOk)

OverlapSpec == OverlapInit /\ [][OverlapNext]_vars

(***************************************************************************)
(* The pipeline over listings longer than the batch: up to MaxEvents sales *)
(* newer than the stored checkpoint, all of them valid, the most recent    *)
(* one with or without a seller address and an image.                      *)
(***************************************************************************)
ThrottleListings(n) ==
    {[i \in 1..n |-> Event(i, 1, IF i = 1 THEN first ELSE GoodSale)]
        : first \in LiveShapes}

ThrottleInit ==
    /\ now = TicksPerSec
    /\ file \in {Stored(Time(0), Time(0)), Stored(Time(0), Undefined)}
    /\ \E n \in 0..MaxEvents : market \in ThrottleListings(n)
    /\ pc = "idle"
    /\ AtRest
    /\ createCanvas = FALSE
    /\ invocations = <<>>

ThrottleSpec == ThrottleInit /\ [][IntakeNext]_vars

(***************************************************************************)
(* A series of runs that never overlap, days apart or seconds apart: the   *)
(* clock advances by ticks and by half alert periods between the runs (and *)
(* by ticks before the last statement of a run), and sales occur in        *)
(* between.                                                                *)
(***************************************************************************)
HalfPeriod == (FloorAlertHours \div 2) * HourTicks

SeriesInit ==
    /\ now = TicksPerSec
    /\ file \in IntakeFiles
    /\ market = <<>>
    /\ pc = "idle"
    /\ AtRest
    /\ createCanvas = FALSE
    /\ invocations = <<>>

SeriesTick ==
    /\ pc \in EnvPoints
    /\ (now % HalfPeriod) < TicksPerSec + MaxClock
    /\ now' = now + 1
    /\ UNCHANGED <<createCanvas, invocations, file, market, pc, retryVars,
                   runVars, calls, attempted>>

\* The scheduler lets half an alert period pass before the next run.
HalfPeriodPasses ==
    /\ pc = "idle"
    /\ now < 2 * HalfPeriod
    /\ now' = now + HalfPeriod
    /\ UNCHANGED <<createCanvas, invocations, file, market, pc, retryVars,
                   runVars, calls, attempted>>

\* A sale happens now, while fewer than MaxListing - 1 events are listed.
SeriesSale(shape) == Len(market) < MaxListing - 1 /\ SaleOccurs(shape)

SeriesNext ==
    \/ SeriesTick
    \/ HalfPeriodPasses
    \/ \E shape \in LiveShapes : SeriesSale(shape)
    \/ IntakeNext

SeriesSpec == SeriesInit /\ [][SeriesNext]_vars

(***************************************************************************)
(* The same series of runs on a file system that takes every write.        *)
(***************************************************************************)
PersistNext ==
    \/ SeriesTick
    \/ HalfPeriodPasses
    \/ \E shape \in LiveShapes : SeriesSale(shape)
    \/ RunStart
    \/ FetchFails
    \/ FetchResponds
    \/ AlertCheck
    \/ \E listing \in {"null", "anon", "seller"} : FloorResponds(listing)
    \/ FloorFails
    \/ FloorSellerStart
    \/ \E ok \in BOOLEAN : FloorTweet(ok)
    \/ UpdateLastFloorAlert(TRUE)
    \/ HolderResponds
    \/ HolderFails
    \/ SellerStart
    \/ \E n \in Holdings : SellerResponds(n)
    \/ SellerFails
    \/ \E ok \in BOOLEAN : UploadImage(ok)
    \/ SkipImage
    \/ \E ok \in BOOLEAN : Tweet(ok)
    \/ \E ok \in BOOLEAN : Fallback(ok)
    \/ Pace
    \/ UpdateLastCheckTime(TRUE)
    \/ RunEnd

PersistSpec == SeriesInit /\ [][PersistNext]_vars

(***************************************************************************)
(* Properties of the retry executor (RetrySpec).                           *)
(***************************************************************************)
AllFailed(t) == \A i \in 1..Len(t) : t[i] # "ok"

\* C1: with maxRetries >= 1 and an action that fails at every invocation,
\* apiCallWithRetry invokes the action exactly maxRetries times and then
\* raises the error of the last invocation; the action is never invoked more
\* than maxRetries times.
C1_RetryTermination ==
    /\ Len(tries) <= rMax
    /\ (rMax >= 1 /\ AllFailed(tries) /\ outcome # "running")
          => /\ outcome = "thrown"
             /\ Len(tries) = rMax
             /\ thrown = tries[rMax]
    /\ outcome = "thrown" => AllFailed(tries) /\ Len(tries) = rMax

\* Three failing invocations with different errors, the last one raised.
C1_Witness ==
    /\ pc = "retry"
    /\ rMax = 3
    /\ outcome = "thrown"
    /\ Len(tries) = 3
    /\ tries[1] # tries[3]
    /\ thrown = tries[3]

(***************************************************************************)
(* Properties of the pipeline under its scheduler (Spec).                  *)
(***************************************************************************)
\* A later fetch would return the event: it is listed, valid, and newer
\* than the checkpoint a fetch would read now.
Due(e, f, clock) ==
    isValidSaleEvent(e) /\ IsRecent(e, getLastCheckTime(f, clock))

\* C2: at-least-once delivery.  A listed valid sale newer than the stored
\* lastCheck stays returnable by a later fetch until a publish call has been
\* made for it; otherwise no later run can deliver it.  This covers the
\* sales beyond the cap of 3, the sales that occur during a run, and the
\* sales that occur before a run whose fetch failed.
C2_AtLeastOnce ==
    [][\A i \in 1..Len(market) :
          (Due(market[i], file, now) /\ market[i].id \notin attempted')
             => Due(market[i], file', now')]_vars

Min(a, b) == IF a <= b THEN a ELSE b
LoopPcs == {"buyer", "seller", "seller_call", "image", "tweet", "fallback", "pace"}
IsPublish(c) == c.op \in {"tweet", "fallback"}
PublishCalls(cs) == SelectSeq(cs, IsPublish)

\* C3: batch cap.  For a fetched list of n valid events the run enters the
\* loop body for exactly the first min(n, 3) of them, in list order, and
\* makes no rank-resolution, image or publish call for any other event.
C3_BatchCap ==
    LET n == Len(sales)
        k == Min(n, 3)
    IN /\ Len(started) <= k
       /\ \A i \in 1..Len(started) : started[i] = sales[i].id
       /\ pc \in LoopPcs => idx = Len(started) /\ idx \in 1..k
       /\ \A i \in 1..Len(calls) :
             calls[i].op \in {"image", "tweet", "fallback"}
                => pc \in LoopPcs /\ calls[i].id = sales[idx].id
       /\ pc \in {"checkpoint", "done"} => Len(started) = k /\ Len(results) = k

\* Four distinct sales fetched, three processed, the fourth never published.
C3_Witness ==
    /\ pc = "done"
    /\ Len(sales) = 4
    /\ Cardinality(Ids(sales)) = 4
    /\ started = <<sales[1].id, sales[2].id, sales[3].id>>
    /\ sales[4].id \notin attempted

\* C4: partial-failure isolation.  After the publish calls of a sale, failed
\* or not, the run goes on to the pacing delay; from there it enters the
\* loop body of the next sale of the batch, or leaves the loop when there is
\* none; and a run ends only through the write of lastCheck, every sale of
\* the batch having been processed.
C4_Isolation ==
    [][LET batch == SalesToProcess(sales) IN
       /\ pc \in {"tweet", "fallback"} => pc' \in {"fallback", "pace"}
       /\ (pc = "pace" /\ results[Len(results)] \in {"failed", "failed_both"})
             => IF idx < Len(batch)
                THEN /\ pc' = "buyer"
                     /\ idx' = idx + 1
                     /\ started' = Append(started, batch[idx + 1].id)
                ELSE pc' = "checkpoint"
       /\ pc' = "done"
             => /\ pc = "checkpoint"
                /\ Len(results) = Len(batch)
                /\ \E writeOk \in BOOLEAN :
                      file' = updateLastCheckTime(file, now, writeOk)
       /\ pc' = "idle" => pc \in {"idle", "done"}]_vars

\* The first sale failed on both calls, the second was posted, and the run
\* ended with lastCheck written.
C4_Witness ==
    /\ pc = "done"
    /\ Len(results) >= 2
    /\ results[1] = "failed_both"
    /\ results[2] = "posted"
    /\ file.st = "ok"
    /\ file.lastCheck = Time(now)

FirstTweet(cs) == PublishCalls(cs)[1]

C6_FetchNeverRaises ==
    [][/\ (pc = "fetch" /\ pc' # "fetch")
             => /\ pc' = "alert_check"
                /\ outcome' \in {"returned", "thrown"}
                /\ outcome' = "thrown"
                      => /\ Len(tries') = 3
                         /\ AllFailed(tries')
                         /\ sales' = <<>>
       /\ (pc = "alert_check" /\ outcome = "thrown" /\ pc' # pc)
             => /\ sales = <<>>
                /\ pc' = IF shouldPostFloorAlert(file, now)
                         THEN "floor" ELSE "checkpoint"]_vars

\* Three failed requests hid a sale that a fetch would have returned.
C6_Witness ==
    /\ pc = "alert_check"
    /\ outcome = "thrown"
    /\ tries = <<NetError, NetError, NetError>>
    /\ sales = <<>>
    /\ \E i \in 1..Len(market) : Due(market[i], file, now)

\* C7: every event fetchRecentSales returns has an occurrence timestamp
\* strictly greater than the lastCheck that fetch read (also before the
\* rounding down to whole seconds); an event of the checkpoint's own second
\* is never returned.
C7_StrictlyNewer ==
    \A i \in 1..Len(sales) :
        /\ readCheck.def
        /\ sales[i].event_timestamp * TicksPerSec > readCheck.t
        /\ sales[i].event_timestamp # ToSeconds(readCheck.t)

\* The response held a valid sale of the checkpoint's own second, which was
\* dropped, and a newer one, which was returned.
C7_Witness ==
    /\ pc = "alert_check"
    /\ readCheck.def
    /\ Len(sales) = 1
    /\ \E i \in 1..Len(response) :
          /\ isValidSaleEvent(response[i])
          /\ response[i].event_timestamp = ToSeconds(readCheck.t)
          /\ response[i].id # sales[1].id

\* C10: the list fetchRecentSales returns holds no sale event twice.
C10_Deduplicated ==
    \A i, j \in 1..Len(sales) : i # j => sales[i].id # sales[j].id

(***************************************************************************)
(* Properties of the pipeline over a given listing (IntakeSpec).           *)
(***************************************************************************)
Range(f) == {f[i] : i \in DOMAIN f}
QuantityAtMostOne(q) == q.t = "undef" \/ q.v <= 1
PaymentNonZero(e) ==
    e.payment.present /\ e.payment.quantity.t # "undef"
       /\ e.payment.quantity.v # 0

\* C8: every event that reaches rank resolution or publishing is a sale
\* with a buyer, an nft payload and a quantity of at most 1 (or none); an
\* event failing one of these is not in the fetched list, and no lookup and
\* no publish call is made for it in any run.
C8_OnlyValidShapes ==
    \A i \in 1..Len(market) :
        LET e == market[i] IN
        (e \in Range(sales) \/ e.id \in Range(started) \/ e.id \in attempted)
           => /\ e.event_type = "sale"
              /\ e.buyer
              /\ e.nft.present
              /\ QuantityAtMostOne(e.quantity)

\* A bundle was listed next to a good sale; only the good sale was looked
\* up and posted.
C8_Witness ==
    /\ pc = "done"
    /\ Len(market) = 2
    /\ ~QuantityAtMostOne(market[1].quantity)
    /\ started = <<market[2].id>>
    /\ results = <<"posted">>
    /\ attempted = {market[2].id}

\* C9: no event whose payment amount is absent or zero (the number 0 or the
\* string '0') is ever published, so no post carries 'Price undisclosed'.
C9_NoZeroPayment ==
    \A i \in 1..Len(market) :
        market[i].id \in attempted
           => /\ PaymentNonZero(market[i])
              /\ ~formatPrice(market[i]).undisclosed

\* s can be obtained from t by deleting elements of t.
RECURSIVE IsSubsequence(_, _)
IsSubsequence(s, t) ==
    IF s = <<>> THEN TRUE
    ELSE IF t = <<>> THEN FALSE
    ELSE IF Head(s) = Head(t) THEN IsSubsequence(Tail(s), Tail(t))
    ELSE IsSubsequence(s, Tail(t))

\* C11: fetchRecentSales does not re-sort.  The list it returns is a
\* subsequence of the marketplace response, in the same relative order, and
\* the loop bodies of a run are entered for the sales of the batch in that
\* order.
C11_ResponseOrder ==
    /\ IsSubsequence(sales, response)
    /\ Len(started) <= Len(SalesToProcess(sales))
    /\ \A k \in 1..Len(started) : started[k] = SalesToProcess(sales)[k].id

\* Two different valid sales were listed, returned and processed in the
\* order of the listing.
C11_Witness ==
    /\ Len(response) = 2
    /\ sales = response
    /\ sales[1] # sales[2]
    /\ started = <<sales[1].id, sales[2].id>>

AfterBuyerPcs == {"seller", "seller_call", "image", "tweet", "fallback", "pace"}
AfterSellerPcs == {"image", "tweet", "fallback", "pace"}

\* C17: the buyer holding count used for classification is at least 1
\* whatever the account endpoint returns, an empty list included; the seller
\* holding count has no floor and is 0 when the seller holds nothing.
C17_BuyerFloor ==
    /\ pc \in AfterBuyerPcs => (buyerCount >= 1 /\ buyerTier = getHolderTier(buyerCount))
    /\ (pc \in AfterSellerPcs /\ sales[idx].seller) =>
           /\ sellerCount \in {sales[idx].sellerNfts, 0}
           /\ sales[idx].sellerNfts = 0 => sellerCount = 0

\* Both lookups answered with an empty list: buyer count 1, seller count 0.
C17_Witness ==
    /\ pc = "image"
    /\ tries = <<"ok">>
    /\ sales[idx].seller
    /\ sales[idx].buyerNfts = 0
    /\ sales[idx].sellerNfts = 0
    /\ buyerCount = 1
    /\ sellerCount = 0

\* C18: account rank resolution never raises.  When the holdings request
\* fails on all 3 attempts, getHolderNFTCount returns 1 and
\* getSellerNFTCount returns 0, the party is classified as associate, the
\* loop body goes on to the publish call, and no sale leaves the loop body
\* without a publish call.
C18_LookupNeverRaises ==
    [][/\ (pc = "buyer" /\ outcome' = "thrown") =>
              /\ Len(tries') = DefaultMaxRetries
              /\ buyerCount' = 1
              /\ buyerTier' = "associate"
              /\ pc' = "seller"
       /\ (pc = "seller_call" /\ outcome' = "thrown") =>
              /\ Len(tries') = DefaultMaxRetries
              /\ sellerCount' = 0
              /\ sellerTier' = "associate"
              /\ pc' = "image"
       /\ pc \in {"buyer", "seller", "seller_call", "image"} =>
              pc' \in {"buyer", "seller", "seller_call", "image", "tweet"}
       /\ (pc # "pace" /\ pc' = "pace") =>
              \E k \in 1..Len(calls') :
                  calls'[k].op = "tweet" /\ calls'[k].id = sales[idx].id
      ]_vars

\* Both lookups failed for parties that hold 12 and 7, and the sale was
\* posted with both classified as associate.
C18_Witness ==
    /\ pc = "pace"
    /\ sales[idx].seller
    /\ sales[idx].buyerNfts = 12
    /\ sales[idx].sellerNfts = 7
    /\ buyerCount = 1
    /\ sellerCount = 0
    /\ buyerTier = "associate"
    /\ sellerTier = "associate"
    /\ results # <<>>
    /\ results[Len(results)] = "posted"

(***************************************************************************)
(* Properties of the classifier (ClassifySpec).                            *)
(***************************************************************************)
\* The tiers and their thresholds, as the classification table states them.
TierThreshold ==
    [associate |-> 0, soldier |-> 5, caporegime |-> 10, consigliere |-> 15,
     underboss |-> 20, godfather |-> 25, commission |-> 100]

Tiers == DOMAIN TierThreshold

\* The highest tier whose threshold the count meets, associate when it
\* meets none.
HighestTierMet(c) ==
    LET met == {t \in Tiers : TierThreshold[t] <= c}
    IN IF met = {} THEN "associate"
       ELSE CHOOSE t \in met : \A u \in met : TierThreshold[u] <= TierThreshold[t]

\* The rank of a tier: its position in the order of the thresholds.
RankOf(t) == 1 + Cardinality({u \in Tiers : TierThreshold[u] < TierThreshold[t]})

\* C12: for every integer count, zero and the negative ones included,
\* getHolderTier yields the highest tier among associate(0), soldier(5),
\* caporegime(10), consigliere(15), underboss(20), godfather(25) and
\* commission(100) whose threshold is at most the count, and associate when
\* none is met; it yields a tier for every count.
C12_HighestTierMet ==
    /\ buyerTier # "none" => buyerTier = HighestTierMet(buyerCount)
    /\ sellerTier \notin {"none", "unknown"} =>
           sellerTier = HighestTierMet(sellerCount)
    /\ pc # "classify" => buyerTier \in Tiers
    /\ pc \in {"classify_status", "classified"} =>
           sellerTier \in Tiers \cup {"unknown"}

\* A negative count classified as associate next to a count of exactly 100
\* classified as commission.
C12_Witness ==
    /\ buyerCount < 0
    /\ buyerTier = "associate"
    /\ sellerCount = 100
    /\ sellerTier = "commission"

\* C13: classification is monotonic.  For any two counts c1 <= c2 the rank
\* of the tier of c1 is at most the rank of the tier of c2; the tier of 0 is
\* associate and the tier of 100 is commission.
C13_Monotonic ==
    (buyerTier # "none" /\ sellerTier \notin {"none", "unknown"}) =>
        /\ buyerCount <= sellerCount =>
               getTierRank(buyerTier) <= getTierRank(sellerTier)
        /\ sellerCount <= buyerCount =>
               getTierRank(sellerTier) <= getTierRank(buyerTier)
        /\ buyerCount = 0 => buyerTier = "associate"
        /\ buyerCount = 100 => buyerTier = "commission"

\* Two neighbouring counts on the two sides of a threshold.
C13_Witness ==
    /\ buyerCount = 19
    /\ sellerCount = 20
    /\ getTierRank(buyerTier) = 4
    /\ getTierRank(sellerTier) = 5

\* C14: for every pair of tiers, with d the rank of the seller minus the
\* rank of the buyer, the status is empire_falls exactly when d > 1,
\* consolidation exactly when d < -1, and business_as_usual exactly when
\* -1 <= d <= 1.
C14_StatusByDifference ==
    (pc = "classified" /\ sellerTier \in Tiers) =>
        LET d == RankOf(sellerTier) - RankOf(buyerTier) IN
        /\ status = statusTemplates.empire_falls <=> d > 1
        /\ status = statusTemplates.consolidation <=> d < 0 - 1
        /\ status = statusTemplates.business_as_usual <=> (d <= 1 /\ d >= 0 - 1)
        /\ (buyerTier = "caporegime" /\ sellerTier = "soldier") =>
               status = statusTemplates.business_as_usual

\* A caporegime sells to an associate: empire_falls.
C14_Witness ==
    /\ pc = "classified"
    /\ buyerTier = "associate"
    /\ sellerTier = "caporegime"
    /\ status = statusTemplates.empire_falls

\* C15: the status is a function of the rank difference only.  Whatever
\* pair of tiers has the same rank difference as the pair that was
\* classified gets the same status.
C15_DifferenceOnly ==
    (pc = "classified" /\ sellerTier \in Tiers) =>
        \A b2 \in Tiers, s2 \in Tiers :
            getTierRank(b2) - getTierRank(s2)
                = getTierRank(buyerTier) - getTierRank(sellerTier)
            => getTransactionStatus(b2, s2) = status

\* A soldier buys from a consigliere; godfather and caporegime, among
\* others, are as far apart.
C15_Witness ==
    /\ pc = "classified"
    /\ buyerTier = "soldier"
    /\ sellerTier = "consigliere"
    /\ status = statusTemplates.empire_falls
    /\ getTransactionStatus("associate", "caporegime") = status

\* C16 as stated: for an event without a seller address the status is
\* business_as_usual for every buyer tier.
C16_UnknownSellerNeutral ==
    (pc = "classified" /\ sellerTier = "unknown") =>
        status = statusTemplates.business_as_usual

\* C16 amended: for an event without a seller address the seller takes the
\* rank-1 default, so the status is business_as_usual when the buyer is an
\* associate or a soldier, and consolidation for every higher buyer tier.
C16_UnknownSellerRankOne ==
    (pc = "classified" /\ sellerTier = "unknown") =>
        status = IF buyerTier \in {"associate", "soldier"}
                 THEN statusTemplates.business_as_usual
                 ELSE statusTemplates.consolidation

\* A caporegime buys from an unknown seller: consolidation.
C16_Witness ==
    /\ pc = "classified"
    /\ sellerTier = "unknown"
    /\ buyerTier = "caporegime"
    /\ status = statusTemplates.consolidation

(***************************************************************************)
(* Properties of the earlier draft (EarlySpec).                            *)
(***************************************************************************)
InLoopBody == idx \in 1..Len(SalesToProcess(sales))

\* C19: after the publish call or calls of a processed sale, the pacing
\* delay TWITTER_DELAY is awaited before the processing of the next sale
\* begins, whether the sale was posted, posted by the fallback, or not
\* posted.
C19_PacedAfterPublish ==
    [][(/\ InLoopBody
        /\ idx' # idx
        /\ \E k \in 1..Len(calls) : calls[k].op \in {"tweet", "fallback"})
       => slept' = Append(slept, TWITTER_DELAY)]_vars

\* C20: media is optional.  A sale whose image is unavailable, or could
\* not be fetched or uploaded, still gets a publish call without media
\* before the run leaves its loop body.
C20_TextOnlyWithoutImage ==
    [][(/\ InLoopBody
        /\ idx' # idx
        /\ ~\E k \in 1..Len(calls) :
               calls[k].op \in {"card", "image"} /\ calls[k].ok)
       => \E k \in 1..Len(calls) :
              calls[k].op \in {"tweet", "fallback"} /\ ~calls[k].media]_vars

(***************************************************************************)
(* Properties of the alert gate (GateSpec).                                *)
(***************************************************************************)
NoAlertRecorded == file.st # "ok" \/ ~file.lastFloorAlert.def
Elapsed == now - file.lastFloorAlert.t

\* C21: shouldPostFloorAlert answers true exactly when no lastFloorAlert is
\* recorded (or the file cannot be read) or the time elapsed since
\* lastFloorAlert exceeds the threshold of the draft (72 hours, 20 hours in
\* the earlier draft); in particular the earlier draft answers false at 19
\* elapsed hours and true at 21.
C21_AlertGate ==
    /\ pc = "asked" =>
           (shouldAlert <=>
                (NoAlertRecorded \/ Elapsed > FloorAlertHours * HourTicks))
    /\ pc = "asked_early" =>
           (shouldAlert <=>
                (NoAlertRecorded \/ Elapsed > EarlyFloorAlertHours * HourTicks))

(***************************************************************************)
(* Properties of the checkpoint store and of the course of a run           *)
(* (IntakeSpec for the final draft, EarlySpec for the earlier one).        *)
(***************************************************************************)
\* The step makes a call of the given kind.
Calls(op) == Len(calls') = Len(calls) + 1 /\ calls'[Len(calls')].op = op

\* C22: the floor alert is tweeted only in a run whose list of fetched valid
\* sales is empty, so no run publishes both the alert and a sale post.
C22_AlertOnlyWithoutSales ==
    [][Calls("floorTweet") => sales = <<>>]_vars

\* C23: reading the checkpoint never fails and yields a usable lastCheck:
\* the stored value when there is one, and one hour before now when the
\* file is missing, cannot be parsed, or holds no lastCheck field.
C23_ReadAlwaysUsable ==
    [][pc = "fetch" =>
           /\ readCheck'.def
           /\ readCheck' = IF file.st = "ok" /\ file.lastCheck.def
                           THEN file.lastCheck
                           ELSE Time(now - HourTicks)]_vars

\* C24: each checkpoint write merges into the stored state, in both drafts:
\* the write of lastCheck leaves lastFloorAlert as it was, and the write of
\* lastFloorAlert leaves lastCheck as it was.
C24_WritesMerge ==
    [][/\ pc = "checkpoint" => file'.lastFloorAlert = file.lastFloorAlert
       /\ pc = "floor_mark" => file'.lastCheck = file.lastCheck]_vars

\* C25: a failing checkpoint write is swallowed: neither updateLastCheckTime
\* nor updateLastFloorAlert raises to runBot (whose catch block is the
\* position "bot_error"), and the file is either left as it was or holds the
\* time of the write in the field written.
C25_WriteFailureSwallowed ==
    [][/\ pc \in {"checkpoint", "floor_mark"} => pc' # "bot_error"
       /\ pc = "checkpoint" => file' = file \/ file'.lastCheck = Time(now)
       /\ pc = "floor_mark" =>
              file' = file \/ file'.lastFloorAlert = Time(now)]_vars

\* The checkpoint writes of the run so far, in order.
IsWrite(c) == c.op \in {"lastCheck", "lastFloorAlert"}
Writes(cs) == SelectSeq(cs, IsWrite)
IsLastCheckWrite(c) == c.op = "lastCheck"

RefetchClocks == {now + d : d \in (0..MaxClock) \cup {HourTicks}}

\* The list a fetch made at time c would return, the file and the listing
\* being what they are.
Refetch(c) == FilterSales(ResponseOf(market), getLastCheckTime(file, c))

C28_EndToEnd ==
    /\ pc = "pace" =>
           /\ Len(PublishCalls(calls)) = 1
           /\ PublishCalls(calls)[1].id = 1
           /\ PublishCalls(calls)[1].ok
           /\ buyerCount = 30
           /\ sellerCount = 0
           /\ buyerTier = "godfather"
           /\ status = statusTemplates.consolidation
    /\ pc = "done" =>
           /\ started = <<1>>
           /\ results = <<"posted">>
           /\ attempted = {1}
           /\ file.lastCheck.def
           /\ file.lastCheck.t > readCheck.t + 10 * TicksPerSec

\* The run is over: the sale was fetched from a listing of two events and
\* tweeted, and lastCheck was advanced.
C28_Witness ==
    /\ pc = "done"
    /\ Len(market) = 2
    /\ sales = <<market[2]>>
    /\ results = <<"posted">>
    /\ file.lastCheck = Time(now)
    /\ readCheck.def
    /\ now > readCheck.t + 10 * TicksPerSec

(***************************************************************************)
(* Properties of the test mode (TestSpec).                                 *)
(***************************************************************************)
IsPost(c) == c.op \in {"tweet", "fallback", "floorTweet"}

\* C29: a process launched with --test makes no publish call and no
\* checkpoint write, leaves the checkpoint file as it is, and never enters
\* runBot: from the positions of runTests it goes to positions of runTests
\* only, until it exits.
C29_TestModeNoSideEffects ==
    [][(pc \in TestPcs) =>
           /\ pc' \in TestPcs \cup {"idle"}
           /\ SelectSeq(calls', IsPost) = <<>>
           /\ Writes(calls') = <<>>
           /\ attempted' = attempted
           /\ file' = file]_vars

\* The tests are over: they saw a sale that a run would post and a floor
\* listing, and the publisher answered the identity call.
C29_Witness ==
    /\ pc = "test_done"
    /\ sales # <<>>
    /\ floorNFT # "null"
    /\ \E k \in 1..Len(calls) : calls[k].op = "me" /\ calls[k].ok
    /\ shouldPostFloorAlert(file, now)

(***************************************************************************)
(* The course of a run of the final draft (IntakeSpec).                    *)
(***************************************************************************)
AlertPcs ==
    {"floor", "floor_seller", "floor_seller_call", "floor_tweet", "floor_mark"}

Phase(p) ==
    CASE p = "idle" -> "START"
      [] p = "fetch" -> "CHECKPOINT_LOADED"
      [] p = "alert_check" -> "EVENTS_FETCHED"
      [] p \in AlertPcs -> "ALERT"
      [] p \in LoopPcs -> "BATCH"
      [] p = "checkpoint" -> "ADVANCE"
      [] p = "done" -> "END"
      [] OTHER -> "NONE"

PhaseSteps ==
    { <<"START", "CHECKPOINT_LOADED">>,
      <<"CHECKPOINT_LOADED", "CHECKPOINT_LOADED">>,
      <<"CHECKPOINT_LOADED", "EVENTS_FETCHED">>,
      <<"EVENTS_FETCHED", "ALERT">>,
      <<"EVENTS_FETCHED", "BATCH">>,
      <<"EVENTS_FETCHED", "ADVANCE">>,
      <<"ALERT", "ALERT">>,
      <<"ALERT", "ADVANCE">>,
      <<"BATCH", "BATCH">>,
      <<"BATCH", "ADVANCE">>,
      <<"ADVANCE", "END">>,
      <<"END", "START">> }

Posts(cs) == SelectSeq(cs, IsPost)

\* C30: a run loads the checkpoint and fetches the events first, then does
\* at most one of the alert (only with an empty list of sales and an alert
\* due) and the batch (only with sales), then writes lastCheck, then ends;
\* lastCheck is written nowhere else, so not before the fetch has returned,
\* and every publish call is made in the alert or in the batch, so none
\* after the write of lastCheck.
C30_RunStateMachine ==
    [][/\ <<Phase(pc), Phase(pc')>> \in PhaseSteps
       /\ (Phase(pc) # "ALERT" /\ Phase(pc') = "ALERT") =>
              sales = <<>> /\ shouldAlert'
       /\ (Phase(pc) # "BATCH" /\ Phase(pc') = "BATCH") => sales # <<>>
       /\ pc = "fetch" => readCheck' = getLastCheckTime(file, now)
       /\ (file'.lastCheck # file.lastCheck
           \/ Len(SelectSeq(calls', IsLastCheckWrite))
                  > Len(SelectSeq(calls, IsLastCheckWrite))) =>
              Phase(pc) = "ADVANCE" /\ Phase(pc') = "END"
       /\ Len(Posts(calls')) > Len(Posts(calls)) =>
              Phase(pc) \in {"ALERT", "BATCH"}]_vars

\* A run of the alert path at its end: the alert was tweeted, lastFloorAlert
\* was recorded, and lastCheck was written last.
C30_Witness ==
    /\ pc = "done"
    /\ sales = <<>>
    /\ shouldAlert
    /\ Len(calls) = 3
    /\ calls[1].op = "floorTweet"
    /\ calls[2].op = "lastFloorAlert"
    /\ calls[3].op = "lastCheck"

(***************************************************************************)
(* Properties of the cursor across runs.                                   *)
(***************************************************************************)
\* The run has ended with a write of lastCheck that succeeded.
EndedWithWrite ==
    /\ pc = "done"
    /\ calls # <<>>
    /\ calls[Len(calls)].op = "lastCheck"
    /\ calls[Len(calls)].ok

\* C31: after a run that processed events, the stored lastCheck is the
\* occurrence time of the event the run processed last (compared in whole
\* seconds, as event times are), not the time at which the run finished.
C31_CursorIsEventTime ==
    (EndedWithWrite /\ started # <<>>) =>
        /\ file.lastCheck.def
        /\ ToSeconds(file.lastCheck.t)
              = sales[Len(started)].event_timestamp

\* C32: lost updates of last-check.json.  An invocation that did not overlap
\* with another one replaces no stored field by a stale value: each of its
\* writes leaves the field it does not write as it was.  (Two overlapping
\* invocations can each replace a field the other has written by the value
\* they read before.)
C32_NoLostUpdateWithoutOverlap ==
    pc = "overlap" =>
        \A r \in Runs :
            ~invocations[r].overlapped => invocations[r].reverted = {}

\* Both losses in one behaviour: one invocation has put back an old
\* lastCheck with its write of lastFloorAlert, the other an old
\* lastFloorAlert with its write of lastCheck.
C32_Witness ==
    /\ pc = "overlap"
    /\ \E r, q \in Runs :
          /\ invocations[r].overlapped
          /\ invocations[q].overlapped
          /\ "lastCheck" \in invocations[r].reverted
          /\ "lastFloorAlert" \in invocations[q].reverted
          /\ file.st = "ok"

(***************************************************************************)
(* Properties of the batch over long listings (ThrottleSpec).              *)
(***************************************************************************)
\* Publish calls that the sale with the given result has had.
CallsOfResult(r) == IF r \in {"fallback", "failed_both"} THEN 2 ELSE 1

RECURSIVE SumOfCalls(_)
SumOfCalls(rs) ==
    IF rs = <<>> THEN 0 ELSE CallsOfResult(Head(rs)) + SumOfCalls(Tail(rs))

IsPosted(r) == r \in {"posted", "fallback"}
IsPostCall(c) == c.op \in {"tweet", "fallback", "floorTweet"}

\* Publish calls of the run so far: those of the sales that are through,
\* the first tweet of a sale whose fallback is still to come, and the floor
\* alert tweet.
RunPublishCalls ==
    SumOfCalls(results)
    + (IF pc = "fallback" THEN 1 ELSE 0)
    + (IF Len(sales) = 0 THEN Len(SelectSeq(calls, IsPostCall)) ELSE 0)

\* C33: per-run throttle.  Whatever the number of fetched events and
\* whatever the publisher answers, a run publishes at most 3 sale posts,
\* makes at most 2 publish calls for one event, and at most 6 publish calls
\* in all.
C33_PerRunThrottle ==
    /\ Len(SelectSeq(results, IsPosted)) <= 3
    /\ Len(results) <= 3
    /\ Len(SelectSeq(calls, IsPostCall)) <= 2
    /\ RunPublishCalls <= 6
    /\ pc = "pace" =>
          Len(SelectSeq(calls, IsPostCall))
             = CallsOfResult(results[Len(results)])

\* More than three sales fetched, six publish calls made, none got through.
C33_Witness ==
    /\ pc = "done"
    /\ Len(sales) > 3
    /\ results = <<"failed_both", "failed_both", "failed_both">>
    /\ RunPublishCalls = 6

(***************************************************************************)
(* Properties of the alert across runs (EarlySpec for the earlier draft,   *)
(* SeriesSpec for the final one).                                          *)
(***************************************************************************)
\* C34: alert rate limit across runs.  A recorded lastFloorAlert is kept by
\* every step of every later run, the writes of lastCheck included, until
\* an alert replaces it by a later time; and the floor alert is tweeted
\* only when no lastFloorAlert is recorded or the threshold number of hours
\* (20 in the earlier draft, which the 72 of the final draft exceed) has
\* elapsed since the recorded time.  So after a recorded alert no run
\* tweets another one before the threshold has elapsed.
C34_AlertRateLimit ==
    [][/\ ~NoAlertRecorded =>
              /\ file'.st = "ok"
              /\ file'.lastFloorAlert.def
              /\ file'.lastFloorAlert.t >= file.lastFloorAlert.t
       /\ Calls("floorTweet") =>
              (NoAlertRecorded \/ Elapsed >= EarlyFloorAlertHours * HourTicks)
       /\ (~NoAlertRecorded /\ file'.lastFloorAlert # file.lastFloorAlert) =>
              Elapsed >= EarlyFloorAlertHours * HourTicks]_vars

FloorPcs == {"floor_seller", "floor_seller_call", "floor_tweet"}

\* What the alert path does apart from the write of lastFloorAlert: with a
\* floor listing it goes on to the tweet and from the tweet, whatever its
\* outcome, to updateLastFloorAlert; without one (the request failed on
\* every attempt, or nothing is listed) it leaves the file as it is and
\* makes no call; and nothing else tweets the alert or changes
\* lastFloorAlert.
AlertPathSteps ==
    /\ (pc = "floor" /\ pc' # "floor") =>
           IF floorNFT' # "null" /\ outcome' = "returned"
           THEN pc' \in FloorPcs
           ELSE pc' = "checkpoint" /\ file' = file /\ calls' = calls
    /\ (pc \in FloorPcs) => pc' \in FloorPcs \cup {"floor_mark"}
    /\ pc = "floor_tweet" => pc' = "floor_mark" /\ Calls("floorTweet")
    /\ Calls("floorTweet") => pc = "floor_tweet" /\ floorNFT # "null"
    /\ pc = "floor_mark" => Calls("lastFloorAlert")
    /\ ReadData(file').lastFloorAlert # ReadData(file).lastFloorAlert =>
           pc = "floor_mark"

\* C35: on the alert path lastFloorAlert is set to the current time
\* whenever a floor listing was obtained, whether the tweet of the alert
\* succeeded or failed; without a floor listing lastFloorAlert is left as
\* it was and no publish call is made.
C35_AlertMarked ==
    [][/\ AlertPathSteps
       /\ pc = "floor_mark" =>
              file'.st = "ok" /\ file'.lastFloorAlert = Time(now)]_vars

\* C35 with the write that can fail: updateLastFloorAlert is called
\* whenever a floor listing was obtained, whether the tweet succeeded or
\* failed, and sets lastFloorAlert to the current time unless its write
\* fails, in which case the file is left as it was.
C35_AlertMarkedUnlessWriteFails ==
    [][/\ AlertPathSteps
       /\ pc = "floor_mark" =>
              IF calls'[Len(calls')].ok
              THEN file'.st = "ok" /\ file'.lastFloorAlert = Time(now)
              ELSE file' = file]_vars

\* An alert whose tweet failed, recorded all the same.
C35_Witness ==
    /\ pc = "checkpoint"
    /\ Len(calls) = 2
    /\ calls[1].op = "floorTweet" /\ ~calls[1].ok
    /\ calls[2].op = "lastFloorAlert" /\ calls[2].ok
    /\ file.lastFloorAlert = Time(now)
    /\ now > HalfPeriod

\* C36: a run whose fetch failed on every attempt goes on as a run without
\* sales.  The failed fetch hands runBot the empty list and touches nothing
\* else; a run with the empty list, however it came by it, takes the alert
\* path exactly when shouldPostFloorAlert says so and otherwise goes to its
\* last statement; and that statement stores the current time as lastCheck
\* (unless the write fails).
C36_FailedFetchAsEmptyRun ==
    [][/\ (pc = "fetch" /\ outcome' = "thrown") =>
              /\ sales' = <<>>
              /\ pc' = "alert_check"
              /\ file' = file /\ calls' = calls /\ attempted' = attempted
       /\ (pc = "alert_check" /\ sales = <<>>) =>
              pc' = IF shouldPostFloorAlert(file, now) THEN "floor"
                    ELSE "checkpoint"
       /\ (pc = "checkpoint" /\ pc' = "done" /\ sales = <<>>) =>
              /\ Calls("lastCheck")
              /\ calls'[Len(calls')].ok =>
                    file'.st = "ok" /\ file'.lastCheck = Time(now)
              /\ ~calls'[Len(calls')].ok => file' = file]_vars

\* The alert has been tweeted in a run that fetched nothing although a
\* valid sale newer than the checkpoint was listed before it started.
C36_Witness ==
    /\ pc = "floor_mark"
    /\ sales = <<>>
    /\ response = <<>>
    /\ market # <<>>
    /\ Due(market[1], file, now)
    /\ calls = <<Call("floorTweet", 0, FALSE, TRUE)>>

(***************************************************************************)
(* Properties of the cursor when every write succeeds (PersistSpec).       *)
(***************************************************************************)
\* C37: no duplicates across runs when persistence works.  A fetch returns
\* no event for which an earlier run made a publish call; the write of
\* lastCheck that ends a run puts every event the run's fetch returned,
\* processed or not, behind the checkpoint; and a listed event that is
\* behind the checkpoint stays behind it.  So an event returned by the
\* fetch of one run is returned by the fetch of no later run.
C37_NoDuplicatesAcrossRuns ==
    [][/\ (pc = "fetch" /\ pc' = "alert_check") =>
              \A i \in 1..Len(sales') : sales'[i].id \notin attempted
       /\ (pc = "checkpoint" /\ pc' = "done") =>
              \A i \in 1..Len(sales) : ~Due(sales[i], file', now')
       /\ \A i \in 1..Len(market) :
              ~Due(market[i], file, now) => ~Due(market[i], file', now')]_vars

\* The marketplace still lists a sale that an earlier run published, and
\* the fetch of this run has answered without it.
C37_Witness ==
    /\ pc = "alert_check"
    /\ outcome = "returned"
    /\ response # <<>>
    /\ isValidSaleEvent(response[1])
    /\ response[1].id \in attempted
    /\ sales = <<>>

(***************************************************************************)
(* Properties of the cursor over a series of runs (SeriesSpec).            *)
(***************************************************************************)
\* C38: over runs that do not overlap, with a clock that never goes back,
\* a stored lastCheck is never lost and never replaced by an earlier time,
\* whatever became of the fetch, of the lookups, of the tweets and of the
\* writes; and it is never ahead of the clock.
C38_LastCheckNeverDecreases ==
    [][/\ (file.st = "ok" /\ file.lastCheck.def) =>
              /\ file'.st = "ok"
              /\ file'.lastCheck.def
              /\ file'.lastCheck.t >= file.lastCheck.t
       /\ (file'.st = "ok" /\ file'.lastCheck.def) => file'.lastCheck.t <= now'
       /\ now' >= now]_vars

\* A run whose only tweet failed has moved lastCheck on from the value
\* that an earlier run had stored.
C38_Witness ==
    /\ pc = "done"
    /\ results = <<"failed">>
    /\ readCheck.def
    /\ readCheck.t > 0
    /\ readCheck.t < now
    /\ now - readCheck.t < HourTicks
    /\ file.lastCheck = Time(now)

(***************************************************************************)
(* The schedule of the retry executor (RetrySpec).                         *)
(***************************************************************************)
RECURSIVE SumOfWaits(_)
SumOfWaits(ws) == IF ws = <<>> THEN 0 ELSE Head(ws) + SumOfWaits(Tail(ws))

\* C39: when the action first succeeds on its k-th invocation, with
\* 1 <= k <= maxRetries, apiCallWithRetry has invoked it exactly k times, has
\* waited delay * 2^0, ..., delay * 2^(k-2) before the invocations 2..k, in
\* that order, and returns; no wait and no invocation follows a success or
\* the last failure; and when the action fails every time the waits add up
\* to delay * (2^(maxRetries-1) - 1).
C39_BackoffSchedule ==
    /\ \A i \in 1..Len(tries) : tries[i] = "ok" => i = Len(tries)
    /\ \A j \in 1..Len(waits) : waits[j] = rDelay * 2^(j - 1)
    /\ outcome = "running" => Len(waits) = Len(tries)
    /\ (tries # <<>> /\ tries[Len(tries)] = "ok") =>
           /\ outcome = "returned"
           /\ Len(tries) <= rMax
           /\ Len(waits) = Len(tries) - 1
    /\ outcome = "thrown" =>
           /\ Len(tries) = rMax
           /\ Len(waits) = rMax - 1
           /\ SumOfWaits(waits) = rDelay * (2^(rMax - 1) - 1)

\* Success on the third of four invocations, after waits of 2000 and 4000.
C39_Witness ==
    /\ pc = "retry"
    /\ rMax = 4
    /\ rDelay = RETRY_DELAY
    /\ outcome = "returned"
    /\ Len(tries) = 3
    /\ tries[3] = "ok"
    /\ waits = <<2000, 4000>>
====
